---- MODULE Spec2Model ----
(***************************************************************************)
(* A model of the cairo-parser analysis pipeline and symbol linker.        *)
(*                                                                         *)
(*   statements.py  StatementParser   body text -> statement vector        *)
(*   cfg.py         CFGBuilder        statement vector -> CFG              *)
(*   dataflow.py    DataflowAnalyzer  CFG -> def-use, inventories, RD      *)
(*   parser.py      CairoParser       files -> symbol table, stubs         *)
(*                                                                         *)
(* Source text is modelled as a sequence of lines, a line as a sequence of *)
(* tokens (strings); white space is implicit between tokens.  The regular  *)
(* expressions of the statement parser are translated to token patterns.   *)
(***************************************************************************)
EXTENDS Integers, Sequences, FiniteSets, TLC

\* ------------------------------------------------------------------ bounds

\* Longest statement vector handed directly to CFGBuilder.build.
MaxLen == 3

\* ------------------------------------------------------------- sequences

Range(s) == {s[k] : k \in DOMAIN s}

Contains(s, x) == \E k \in DOMAIN s : s[k] = x

\* Python's list.count / str.count on a tokenised line.
Count(s, x) == Cardinality({k \in DOMAIN s : s[k] = x})

Min(S) == CHOOSE x \in S : \A y \in S : x <= y

\* Index of the first occurrence of tok at or after position from, 0 if none.
FirstAt(line, from, tok) ==
    LET hits == {k \in DOMAIN line : k >= from /\ line[k] = tok}
    IN IF hits = {} THEN 0 ELSE Min(hits)

Slice(s, a, b) == IF a > b THEN <<>> ELSE SubSeq(s, a, b)

Tok(line, k) == IF k \in DOMAIN line THEN line[k] ELSE ""

\* ---------------------------------------------------------------- tokens

\* \w+ of the regular expressions: a token that is no punctuation.
IsWord(t) ==
    LET
        Punct == {"{", "}", "(", ")", "=", ";", ".", ",", "+", "::", ":", "=>", ">", "!", "//"}
    IN
             t # "" /\ t \notin Punct

\* --------------------------------------------------------------- statements

None == -1

NoTokens == <<>>

\* One record shape for every Statement subclass; the fields a subclass does
\* not have keep their defaults.
Statement(type, line_num) ==
    [stmt_type |-> type, line |-> line_num, block_depth |-> 0,
     variable |-> "", expression |-> NoTokens, condition |-> NoTokens,
     function_name |-> "", arguments |-> NoTokens, is_external |-> FALSE,
     storage_var |-> "", value |-> NoTokens]

NoStatement == Statement("none", 0)

IfStmt(cond, line_num) == [Statement("if", line_num) EXCEPT !.condition = cond]

ElseStmt(line_num) == Statement("else", line_num)

MatchStmt(expr, line_num) == [Statement("match", line_num) EXCEPT !.expression = expr]

ReturnStmt(expr, line_num) == [Statement("return", line_num) EXCEPT !.expression = expr]

AssertStmt(cond, line_num) == [Statement("assert", line_num) EXCEPT !.condition = cond]

LetBindingStmt(var, expr, line_num) ==
    [Statement("let_binding", line_num) EXCEPT !.variable = var, !.expression = expr]

\* ------------------------------------------------- StatementParser._parse_line

\* Start positions at which a token pattern matches; re.search takes the
\* leftmost one.
Leftmost(S) == IF S = {} THEN 0 ELSE Min(S)

Spaced(line, k) ==
    LET
        \* Tokens written without white space before them; every other token is
        \* written after a blank, so that \s+ matches in front of it.
        Glued == {")", ";", ","}
    IN
                   k \in DOMAIN line /\ line[k] \notin Glued

\* PATTERNS['assert']: assert[!]?\s*\(([^)]+)\)
AssertOpen(line, p) == IF Tok(line, p + 1) = "!" THEN p + 2 ELSE p + 1

\* \s*=\s*([^;]+); with the '=' at position q: the '=' may be the first
\* character of a '=>' token, whose '>' then starts the expression.
EqTail(line, q) ==
    \/ Tok(line, q) = "=" /\ FirstAt(line, q + 1, ";") > q + 1
    \/ Tok(line, q) = "=>" /\ FirstAt(line, q + 1, ";") >= q + 1

LetVarPos(line, p) ==
    LET
        \* PATTERNS['let_binding']: let\s+(mut\s+)?(\w+)\s*=\s*([^;]+);
        \* LetVarPos is the position of the bound name (0 when the pattern fails at p):
        \* the optional group is tried first and given up when the rest fails.
        LetTail(q) == IsWord(Tok(line, q)) /\ EqTail(line, q + 1)
    IN
    IF line[p] # "let" THEN 0
    ELSE IF Tok(line, p + 1) = "mut" /\ LetTail(p + 2) THEN p + 2
    ELSE IF LetTail(p + 1) THEN p + 1
    ELSE 0

_parse_line(line, line_num) ==
    LET
        AssignmentStmt(var, expr) ==
            [Statement("assignment", line_num) EXCEPT !.variable = var, !.expression = expr]

        CallStmt(name, args, ext) ==
            [Statement("call", line_num) EXCEPT
                !.function_name = name, !.arguments = args, !.is_external = ext]

        StorageReadStmt(var) ==
            [Statement("storage_read", line_num) EXCEPT !.storage_var = var]

        StorageWriteStmt(var, val) ==
            [Statement("storage_write", line_num) EXCEPT !.storage_var = var, !.value = val]

        \* 'self.' in stripped
        HasSelfDot == \E p \in DOMAIN line : line[p] = "self" /\ Tok(line, p + 1) = "."

        \* PATTERNS['storage_write']: self\.(\w+)\.write\(([^)]+)\)
        StorageWriteAt ==
            Leftmost({p \in DOMAIN line :
                /\ line[p] = "self" /\ Tok(line, p + 1) = "." /\ IsWord(Tok(line, p + 2))
                /\ Tok(line, p + 3) = "." /\ Tok(line, p + 4) = "write" /\ Tok(line, p + 5) = "("
                /\ FirstAt(line, p + 6, ")") > p + 6})

        \* PATTERNS['storage_read']: self\.(\w+)\.read\(\)
        StorageReadAt ==
            Leftmost({p \in DOMAIN line :
                /\ line[p] = "self" /\ Tok(line, p + 1) = "." /\ IsWord(Tok(line, p + 2))
                /\ Tok(line, p + 3) = "." /\ Tok(line, p + 4) = "read" /\ Tok(line, p + 5) = "("
                /\ Tok(line, p + 6) = ")"})

        \* PATTERNS['if']: if\s+([^{]+)\s*\{
        IfAt ==
            Leftmost({p \in DOMAIN line :
                line[p] = "if" /\ Spaced(line, p + 1) /\ FirstAt(line, p + 1, "{") > p + 1})

        \* PATTERNS['else_if']: \}\s*else\s+if\s+([^{]+)\s*\{
        ElseIfAt ==
            Leftmost({p \in DOMAIN line :
                /\ line[p] = "}" /\ Tok(line, p + 1) = "else" /\ Tok(line, p + 2) = "if"
                /\ Spaced(line, p + 3) /\ FirstAt(line, p + 3, "{") > p + 3})

        \* PATTERNS['else']: \}\s*else\s*\{
        ElseAt ==
            Leftmost({p \in DOMAIN line :
                line[p] = "}" /\ Tok(line, p + 1) = "else" /\ Tok(line, p + 2) = "{"})

        \* PATTERNS['match']: match\s+([^{]+)\s*\{
        MatchAt ==
            Leftmost({p \in DOMAIN line :
                line[p] = "match" /\ Spaced(line, p + 1) /\ FirstAt(line, p + 1, "{") > p + 1})

        \* PATTERNS['return']: return\s+([^;]+);|return;
        ReturnAt ==
            Leftmost({p \in DOMAIN line :
                /\ line[p] = "return"
                /\ \/ Tok(line, p + 1) = ";"
                   \/ Spaced(line, p + 1) /\ FirstAt(line, p + 1, ";") > p + 1})

        AssertAt ==
            Leftmost({p \in DOMAIN line :
                /\ line[p] = "assert" /\ Tok(line, AssertOpen(line, p)) = "("
                /\ FirstAt(line, AssertOpen(line, p) + 1, ")") > AssertOpen(line, p) + 1})

        \* The expression captured after the '=' at position q.
        EqExpr(q) ==
            (IF line[q] = "=>" THEN <<">">> ELSE <<>>)
                \o Slice(line, q + 1, FirstAt(line, q + 1, ";") - 1)

        LetAt == Leftmost({p \in DOMAIN line : LetVarPos(line, p) > 0})

        \* PATTERNS['assignment']: (\w+)\s*=\s*([^;]+);
        AssignmentAt ==
            Leftmost({p \in DOMAIN line : IsWord(line[p]) /\ EqTail(line, p + 1)})

        \* PATTERNS['function_call']: (\w+)\s*\(([^)]*)\)
        CallAt ==
            Leftmost({p \in DOMAIN line :
                IsWord(line[p]) /\ Tok(line, p + 1) = "(" /\ FirstAt(line, p + 2, ")") >= p + 2})

        \* is_external = 'dispatcher' in stripped.lower() or '::' in stripped
        IsExternalLine ==
            LET
                \* Tokens whose lower-cased text contains 'dispatcher'.
                DispatcherTokens == {"IErc20Dispatcher", "dispatcher"}
            IN
            \E k \in DOMAIN line : line[k] \in DispatcherTokens \/ line[k] = "::"

        \* args = [arg.strip() for arg in args_str.split(',') if arg.strip()], kept as
        \* the tokens of the arguments without the separating commas.
        CallArgs(toks) == SelectSeq(toks, LAMBDA t : t # ",")
    IN
    IF Len(line) = 0 \/ line[1] = "//" THEN NoStatement
    ELSE IF HasSelfDot /\ StorageWriteAt > 0 THEN
        LET p == StorageWriteAt
        IN StorageWriteStmt(line[p + 2],
                            Slice(line, p + 6, FirstAt(line, p + 6, ")") - 1))
    ELSE IF HasSelfDot /\ StorageReadAt > 0 THEN
        StorageReadStmt(line[StorageReadAt + 2])
    ELSE IF IfAt > 0 THEN
        LET p == IfAt
        IN IfStmt(Slice(line, p + 1, FirstAt(line, p + 1, "{") - 1), line_num)
    ELSE IF ElseIfAt > 0 THEN ElseStmt(line_num)
    ELSE IF ElseAt > 0 THEN ElseStmt(line_num)
    ELSE IF MatchAt > 0 THEN
        LET p == MatchAt
        IN MatchStmt(Slice(line, p + 1, FirstAt(line, p + 1, "{") - 1), line_num)
    ELSE IF ReturnAt > 0 THEN
        LET p == ReturnAt
        IN ReturnStmt(Slice(line, p + 1, FirstAt(line, p + 1, ";") - 1), line_num)
    ELSE IF AssertAt > 0 THEN
        LET o == AssertOpen(line, AssertAt)
        IN AssertStmt(Slice(line, o + 1, FirstAt(line, o + 1, ")") - 1), line_num)
    ELSE IF LetAt > 0 THEN
        LET q == LetVarPos(line, LetAt)
        IN LetBindingStmt(line[q], EqExpr(q + 1), line_num)
    ELSE IF AssignmentAt > 0 THEN
        LET p == AssignmentAt
        IN AssignmentStmt(line[p], EqExpr(p + 1))
    ELSE IF CallAt > 0 THEN
        LET p == CallAt
        IN CallStmt(line[p], CallArgs(Slice(line, p + 2, FirstAt(line, p + 2, ")") - 1)),
                    IsExternalLine)
    ELSE NoStatement

\* ----------------------------------------------------- StatementParser.parse

RECURSIVE ParseFrom(_, _, _, _, _)
ParseFrom(lines, k, start_line, current_depth, statements) ==
    LET
        \* The block depth parse gives the statement of a line read at current_depth.
        LineDepth(stmt, line) ==
            LET
                IsControlHeader == stmt.stmt_type \in {"if", "else", "match"}
            IN
            IF IsControlHeader THEN current_depth
            ELSE current_depth + (IF Contains(line, "{") THEN 1 ELSE 0)
    IN
    IF k > Len(lines) THEN statements
    ELSE LET line == lines[k]
             stmt == _parse_line(line, start_line + k - 1)
             out  == IF stmt = NoStatement THEN statements
                     ELSE Append(statements,
                            [stmt EXCEPT !.block_depth = LineDepth(stmt, line)])
         IN ParseFrom(lines, k + 1, start_line,
                      current_depth + Count(line, "{") - Count(line, "}"), out)

parse(function_body, start_line) == ParseFrom(function_body, 1, start_line, 0, <<>>)

\* ------------------------------------ extract_variables_used / _defined

_extract_vars_from_expr(expression) ==
    LET
        \* [a-zA-Z_][a-zA-Z0-9_]* of _extract_vars_from_expr.
        IsIdent(t) ==
            LET
                Digits == {"0", "1", "2"}
            IN
                      IsWord(t) /\ t \notin Digits

        keywords == {"let", "mut", "if", "else", "match", "return", "true", "false", "self"}
    IN
    SelectSeq(expression, LAMBDA t : IsIdent(t) /\ t \notin keywords)

extract_variables_used(statement) ==
    IF statement.stmt_type \in {"assignment", "let_binding"}
        THEN _extract_vars_from_expr(statement.expression)
    ELSE IF statement.stmt_type = "if"
        THEN _extract_vars_from_expr(statement.condition)
    ELSE IF statement.stmt_type = "return"
        THEN _extract_vars_from_expr(statement.expression)
    ELSE IF statement.stmt_type = "call"
        THEN _extract_vars_from_expr(statement.arguments)
    ELSE IF statement.stmt_type = "storage_write"
        THEN _extract_vars_from_expr(statement.value)
    ELSE <<>>

extract_variables_defined(statement) ==
    IF statement.stmt_type \in {"let_binding", "assignment"}
        THEN <<statement.variable>>
    ELSE <<>>

\* ------------------------------------------------------------ CFG (cfg.py)

\* A CFGBuilder is the record [cfg, node_counter]; cfg is the ControlFlowGraph
\* [nodes, entry_node_id, exit_node_ids].  nodes, successors, predecessors and
\* exit_node_ids are Python lists: sequences.

ControlFlowGraph == [nodes |-> <<>>, entry_node_id |-> None, exit_node_ids |-> <<>>]

\* ControlFlowGraph.get_node, as the position of the first node with that id
\* (0 for Python's None).
get_node(g, node_id) ==
    Leftmost({k \in DOMAIN g.nodes : g.nodes[k].id = node_id})

AppendNew(list, x) == IF Contains(list, x) THEN list ELSE Append(list, x)

\* add_edge without its second append.
add_edge_successors_only(g, from_id, to_id) ==
    LET f == get_node(g, from_id)
        t == get_node(g, to_id)
    IN IF f = 0 \/ t = 0 THEN g
       ELSE [g EXCEPT !.nodes[f].successors = AppendNew(@, to_id)]

\* add_edge that also records the edge in the opposite direction.
add_edge_and_back(g, from_id, to_id) ==
    LET f == get_node(g, from_id)
        t == get_node(g, to_id)
    IN IF f = 0 \/ t = 0 THEN g
       ELSE LET g1 == [g EXCEPT !.nodes[f].successors = AppendNew(@, to_id)]
                g2 == [g1 EXCEPT !.nodes[t].predecessors = AppendNew(@, from_id)]
            IN [g2 EXCEPT !.nodes[t].successors = AppendNew(@, from_id)]

add_edge(g, from_id, to_id) ==
    LET f == get_node(g, from_id)
        t == get_node(g, to_id)
    IN IF f = 0 \/ t = 0 THEN g
       ELSE LET g1 == [g EXCEPT !.nodes[f].successors = AppendNew(@, to_id)]
            IN [g1 EXCEPT !.nodes[t].predecessors = AppendNew(@, from_id)]

\* _create_node that numbers the node after the counter moved on.
_create_node_numbered_late(b, node_type, statement) ==
    [b EXCEPT !.cfg.nodes = Append(@, [id |-> b.node_counter + 1, node_type |-> node_type,
                                       statement |-> statement,
                                       successors |-> <<>>, predecessors |-> <<>>]),
              !.node_counter = @ + 1]

\* CFGBuilder._create_node: the new node has id b.node_counter.
_create_node(b, node_type, statement) ==
    LET
        CFGNode(id) ==
            [id |-> id, node_type |-> node_type, statement |-> statement,
             successors |-> <<>>, predecessors |-> <<>>]
    IN
    [b EXCEPT !.cfg.nodes = Append(@, CFGNode(b.node_counter)),
              !.node_counter = @ + 1]

Edge(b, from_id, to_id) == [b EXCEPT !.cfg = add_edge(@, from_id, to_id)]

\* CFGBuilder._extract_if_blocks: the index at which the first scan stops.
RECURSIVE ThenEnd(_, _, _)
ThenEnd(statements, k, if_depth) ==
    IF k > Len(statements) THEN k
    ELSE IF statements[k].stmt_type = "else" /\ statements[k].block_depth = if_depth THEN k
    ELSE IF statements[k].block_depth <= if_depth THEN k
    ELSE ThenEnd(statements, k + 1, if_depth)

\* The index at which a scan for the end of a block stops: the first statement
\* at or after k whose depth is no more than depth.
RECURSIVE BlockEnd(_, _, _)
BlockEnd(statements, k, depth) ==
    IF k > Len(statements) THEN k
    ELSE IF statements[k].block_depth <= depth THEN k
    ELSE BlockEnd(statements, k + 1, depth)

\* _extract_if_blocks that does not look for an else.
_extract_if_blocks_then_only(statements, if_idx) ==
    [then_block |-> Slice(statements, if_idx + 1,
                          BlockEnd(statements, if_idx + 1, statements[if_idx].block_depth) - 1),
     has_else   |-> FALSE,
     else_block |-> <<>>,
     next_idx   |-> BlockEnd(statements, if_idx + 1, statements[if_idx].block_depth)]

\* (then_block, else_block, next index); has_else tells an empty else block
\* from Python's None.
_extract_if_blocks(statements, if_idx) ==
    LET
        \* _extract_if_blocks from the index stop at which its first scan stopped.
        BlocksFrom(stop) ==
            LET
                \* `isinstance(stmt, ElseStmt) and stmt.block_depth == if_depth` at index k.
                ElseAtDepth(k, if_depth) ==
                    /\ k <= Len(statements)
                    /\ statements[k].stmt_type = "else"
                    /\ statements[k].block_depth = if_depth

                \* The result of _extract_if_blocks when an else was found at index else_idx
                \* and the second scan stopped at index last.
                WithElse(else_idx, last) ==
                    [then_block |-> Slice(statements, if_idx + 1, else_idx - 1),
                     has_else   |-> TRUE,
                     else_block |-> Slice(statements, else_idx + 1, last - 1),
                     next_idx   |-> last]

                \* The result of _extract_if_blocks when the first scan stopped at index stop
                \* and found no else there.
                WithoutElse ==
                    [then_block |-> Slice(statements, if_idx + 1, stop - 1),
                     has_else   |-> FALSE,
                     else_block |-> <<>>,
                     next_idx   |-> stop]
            IN
            IF ElseAtDepth(stop, statements[if_idx].block_depth)
            THEN WithElse(stop,
                          BlockEnd(statements, stop + 1, statements[if_idx].block_depth))
            ELSE WithoutElse
    IN
    BlocksFrom(ThenEnd(statements, if_idx + 1, statements[if_idx].block_depth))

RECURSIVE _build_sequential(_, _, _, _, _)
RECURSIVE _build_if(_, _, _, _, _)
RECURSIVE _build_match(_, _, _, _, _)

\* A turn of the while loop that goes on after a return as after any statement.
SeqStepPastReturn(b, statements, i, current_id, exit_id) ==
    IF statements[i].stmt_type = "if"
    THEN [b |-> _build_if(b, statements, i, current_id, exit_id).b,
          current_id |-> _build_if(b, statements, i, current_id, exit_id).current_id,
          i |-> _build_if(b, statements, i, current_id, exit_id).i + 1,
          returned |-> FALSE]
    ELSE IF statements[i].stmt_type = "match"
    THEN [b |-> _build_match(b, statements, i, current_id, exit_id).b,
          current_id |-> _build_match(b, statements, i, current_id, exit_id).current_id,
          i |-> _build_match(b, statements, i, current_id, exit_id).i + 1,
          returned |-> FALSE]
    ELSE [b |-> IF statements[i].stmt_type = "return"
                THEN Edge(Edge(_create_node(b, "statement", statements[i]), current_id,
                               b.node_counter), b.node_counter, exit_id)
                ELSE Edge(_create_node(b, "statement", statements[i]), current_id,
                          b.node_counter),
          current_id |-> b.node_counter, i |-> i + 1, returned |-> FALSE]

\* One turn of the while loop of _build_sequential on statements[i]:
\* [b, current_id, i, returned]; i is the index the loop continues at.
SeqStep(b, statements, i, current_id, exit_id) ==
    LET
        \* _build_sequential after _build_if / _build_match returned r = [b, current_id, i]:
        \* current_id, i = r; i += 1.
        AfterBranch(r) ==
            [b |-> r.b, current_id |-> r.current_id, i |-> r.i + 1, returned |-> FALSE]

        \* _build_sequential on a return: node b1 was created with id id.
        AfterReturn(b1, id) ==
            [b |-> Edge(Edge(b1, current_id, id), id, exit_id),
             current_id |-> None, i |-> i, returned |-> TRUE]

        \* _build_sequential on any other statement: node b1 was created with id id.
        AfterStatement(b1, id) ==
            [b |-> Edge(b1, current_id, id), current_id |-> id, i |-> i + 1,
             returned |-> FALSE]
    IN
    IF statements[i].stmt_type = "if"
    THEN AfterBranch(_build_if(b, statements, i, current_id, exit_id))
    ELSE IF statements[i].stmt_type = "match"
    THEN AfterBranch(_build_match(b, statements, i, current_id, exit_id))
    ELSE IF statements[i].stmt_type = "return"
    THEN AfterReturn(_create_node(b, "statement", statements[i]), b.node_counter)
    ELSE AfterStatement(_create_node(b, "statement", statements[i]), b.node_counter)

\* [b, current_id]: current_id is None when the sequence ended in a return.
_build_sequential(b, statements, current_id, exit_id, start_idx) ==
    LET
        \* The while loop of _build_sequential after the turn that gave r.
        SeqLoop(r) ==
            IF r.returned THEN [b |-> r.b, current_id |-> None]
            ELSE _build_sequential(r.b, statements, r.current_id, exit_id, r.i)
    IN
    IF start_idx > Len(statements) THEN [b |-> b, current_id |-> current_id]
    ELSE SeqLoop(SeqStep(b, statements, start_idx, current_id, exit_id))

\* The join of a block's end to the merge node, left out.
JoinNothing(r, merge_id) == r.b

\* `if then_last is not None: add_edge(then_last, merge_node.id)` for the
\* result r of _build_sequential.
JoinMerge(r, merge_id) ==
    IF r.current_id # None THEN Edge(r.b, r.current_id, merge_id) ELSE r.b

\* The branch of an if or the body of a match: built from branch_id and joined
\* to merge_id unless it ended in a return; an empty block is the edge from the
\* branch node to the merge node.
BuildBlock(b, block, branch_id, merge_id, exit_id) ==
    IF Len(block) > 0
    THEN JoinMerge(_build_sequential(b, block, branch_id, exit_id, 1), merge_id)
    ELSE Edge(b, branch_id, merge_id)

_build_if(b, statements, if_idx, current_id, exit_id) ==
    LET
        \* _build_if from the creation of the merge node on: b1 holds the branch node.
        IfMerge(b1, x, branch_id) ==
            LET
                \* _build_if after the merge node was created with id merge_id: the then
                \* block, then the else block.
                IfBlocks(b2, merge_id) ==
                    [b |-> BuildBlock(BuildBlock(b2, x.then_block, branch_id, merge_id, exit_id),
                                      x.else_block, branch_id, merge_id, exit_id),
                     current_id |-> merge_id,
                     i |-> x.next_idx - 1]
            IN
            IfBlocks(_create_node(b1, "merge", NoStatement), b1.node_counter)
    IN
    IfMerge(Edge(_create_node(b, "branch", statements[if_idx]), current_id,
                 b.node_counter),
            _extract_if_blocks(statements, if_idx), b.node_counter)

_build_match(b, statements, match_idx, current_id, exit_id) ==
    LET
        \* _build_match from the creation of the merge node on: b1 holds the branch node.
        MatchMerge(b1, branch_id) ==
            LET
                \* _build_match after the merge node was created with id merge_id; next_idx is
                \* the index at which the match block ends.
                MatchBody(b2, next_idx, merge_id) ==
                    [b |-> BuildBlock(b2, Slice(statements, match_idx + 1, next_idx - 1),
                                      branch_id, merge_id, exit_id),
                     current_id |-> merge_id,
                     i |-> next_idx - 1]
            IN
            MatchBody(_create_node(b1, "merge", NoStatement),
                      BlockEnd(statements, match_idx + 1, statements[match_idx].block_depth), b1.node_counter)
    IN
    MatchMerge(Edge(_create_node(b, "branch", statements[match_idx]), current_id,
                    b.node_counter), b.node_counter)

\* CFGBuilder.find_all_paths / _dfs_paths: the list of paths after the call.
RECURSIVE _dfs_paths(_, _, _, _, _, _)
RECURSIVE DfsSuccessors(_, _, _, _, _, _, _)

\* The for loop of _dfs_paths over successors[k..].
DfsSuccessors(g, successors, k, current_path, visited, paths, max_paths) ==
    IF k > Len(successors) THEN paths
    ELSE DfsSuccessors(g, successors, k + 1, current_path, visited,
            IF successors[k] \notin visited
            THEN _dfs_paths(g, successors[k], current_path, visited, paths, max_paths)
            ELSE paths,
            max_paths)

\* _dfs_paths without the test of len(paths) against max_paths.
_dfs_paths_uncapped(g, id, current_path, visited, paths, max_paths) ==
    IF Contains(g.exit_node_ids, id) THEN Append(paths, Append(current_path, id))
    ELSE IF get_node(g, id) = 0 THEN paths
    ELSE DfsSuccessors(g, g.nodes[get_node(g, id)].successors, 1,
                       Append(current_path, id), visited \cup {id}, paths, max_paths)

_dfs_paths(g, id, current_path, visited, paths, max_paths) ==
    IF Len(paths) >= max_paths THEN paths
    ELSE LET path == Append(current_path, id)
             seen == visited \cup {id}
         IN IF Contains(g.exit_node_ids, id) THEN Append(paths, path)
            ELSE IF get_node(g, id) = 0 THEN paths
            ELSE DfsSuccessors(g, g.nodes[get_node(g, id)].successors, 1, path, seen,
                               paths, max_paths)

find_all_paths(g, max_paths) ==
    IF g.entry_node_id = None THEN <<>>
    ELSE _dfs_paths(g, g.entry_node_id, <<>>, {}, <<>>, max_paths)

\* Default of find_all_paths(max_paths).
DefaultMaxPaths == 100

\* ------------------------------------------------- dataflow (dataflow.py)

HasStatement(node) == node.statement # NoStatement

\* Identifiers of the inputs in the order sorted() gives them.
SortedIdents ==
    <<"Helper", "IErc20Dispatcher", "Point", "a", "address", "amt", "c", "cond",
      "counter", "dispatcher", "foo", "p", "read", "to", "transfer", "v", "write", "x", "y">>

\* var_defs / var_uses of analyze_def_use_chains, as the list of (variable,
\* node id) pairs in the order the loop appends them.
PairsOf(names, id) == [k \in 1..Len(names) |-> <<names[k], id>>]

RECURSIVE DefPairs(_, _)
DefPairs(nodes, k) ==
    IF k > Len(nodes) THEN <<>>
    ELSE (IF HasStatement(nodes[k])
          THEN PairsOf(extract_variables_defined(nodes[k].statement), nodes[k].id)
          ELSE <<>>) \o DefPairs(nodes, k + 1)

RECURSIVE UsePairs(_, _)
UsePairs(nodes, k) ==
    IF k > Len(nodes) THEN <<>>
    ELSE (IF HasStatement(nodes[k])
          THEN PairsOf(extract_variables_used(nodes[k].statement), nodes[k].id)
          ELSE <<>>) \o UsePairs(nodes, k + 1)

\* var_defs.get(var, []): the node ids recorded for var.
IdsOf(pairs, var) ==
    LET mine == SelectSeq(pairs, LAMBDA pr : pr[1] = var)
    IN [k \in 1..Len(mine) |-> mine[k][2]]

\* analyze_def_use_chains that makes chains for the defined variables only.
analyze_def_use_chains_defs_only(g) ==
    LET var_defs == DefPairs(g.nodes, 1)
        var_uses == UsePairs(g.nodes, 1)
        all_vars == {pr[1] : pr \in Range(var_defs)}
        sorted   == SelectSeq(SortedIdents, LAMBDA var : var \in all_vars)
    IN [k \in 1..Len(sorted) |->
            [variable |-> sorted[k],
             definitions |-> IdsOf(var_defs, sorted[k]),
             uses |-> IdsOf(var_uses, sorted[k])]]

analyze_def_use_chains(g) ==
    LET var_defs == DefPairs(g.nodes, 1)
        var_uses == UsePairs(g.nodes, 1)
        all_vars == {pr[1] : pr \in Range(var_defs) \cup Range(var_uses)}
        sorted   == SelectSeq(SortedIdents, LAMBDA var : var \in all_vars)
    IN [k \in 1..Len(sorted) |->
            [variable |-> sorted[k],
             definitions |-> IdsOf(var_defs, sorted[k]),
             uses |-> IdsOf(var_uses, sorted[k])]]

\* analyze_external_calls that leaves ExternalCall.is_external at its default.
analyze_external_calls_by_default(g) ==
    LET hits == SelectSeq(g.nodes, LAMBDA node : node.statement.stmt_type = "call")
    IN [k \in 1..Len(hits) |->
            [function_name |-> hits[k].statement.function_name,
             arguments |-> hits[k].statement.arguments,
             node_id |-> hits[k].id,
             line |-> hits[k].statement.line,
             is_external |-> TRUE]]

analyze_storage_access(g) ==
    LET hits == SelectSeq(g.nodes, LAMBDA node :
                    node.statement.stmt_type \in {"storage_read", "storage_write"})
    IN [k \in 1..Len(hits) |->
            [storage_var |-> hits[k].statement.storage_var,
             access_type |-> IF hits[k].statement.stmt_type = "storage_read"
                             THEN "read" ELSE "write",
             node_id |-> hits[k].id,
             line |-> hits[k].statement.line,
             value |-> hits[k].statement.value]]

analyze_external_calls(g) ==
    LET hits == SelectSeq(g.nodes, LAMBDA node : node.statement.stmt_type = "call")
    IN [k \in 1..Len(hits) |->
            [function_name |-> hits[k].statement.function_name,
             arguments |-> hits[k].statement.arguments,
             node_id |-> hits[k].id,
             line |-> hits[k].statement.line,
             is_external |-> hits[k].statement.is_external]]

analyze_all(g) ==
    [def_use_chains |-> analyze_def_use_chains(g),
     storage_accesses |-> analyze_storage_access(g),
     external_calls |-> analyze_external_calls(g)]

NoDataflow == [def_use_chains |-> <<>>, storage_accesses |-> <<>>, external_calls |-> <<>>]

\* -------------------------------- reaching definitions (dataflow.py 229-320)

\* compute_reaching_definitions: the iteration cap.
max_iterations == 100

\* _gen_definitions: the (variable, node id) pairs the node defines.
_gen_definitions(node) ==
    IF ~HasStatement(node) THEN {}
    ELSE {<<var, node.id>> : var \in Range(extract_variables_defined(node.statement))}

\* _kill_definitions: the reaching definitions the node overwrites.
_kill_definitions(node, reaching_defs) ==
    IF ~HasStatement(node) THEN {}
    ELSE {d \in reaching_defs :
            /\ d[1] \in Range(extract_variables_defined(node.statement))
            /\ d[2] # node.id}

\* new_in: the union of reaching_out over the predecessors.
NewIn(node, reaching_out) ==
    LET
        \* reaching_out.get(pred_id, set())
        OutOf(pred_id) ==
            IF pred_id \in DOMAIN reaching_out THEN reaching_out[pred_id] ELSE {}
    IN
    UNION {OutOf(pred_id) : pred_id \in Range(node.predecessors)}

\* new_out = gen_set.union(reaching_in[node.id] - kill_set)
NewOut(node, reaching_in) ==
    _gen_definitions(node) \cup (reaching_in \ _kill_definitions(node, reaching_in))

\* SetOut that stores the new set and leaves changed alone.
SetOutSilently(st, id, new_out) ==
    [st EXCEPT !.reaching_out[id] = new_out]

\* if new_out != reaching_out[node.id]: store it and set changed.
SetOut(st, id, new_out) ==
    IF new_out # st.reaching_out[id]
    THEN [st EXCEPT !.reaching_out[id] = new_out, !.changed = TRUE]
    ELSE st

\* The body of the for loop over cfg.nodes for one node.
UpdateNode(st, node) ==
    LET
        \* if new_in != reaching_in[node.id]: store it and set changed.
        SetIn(id, new_in) ==
            IF new_in # st.reaching_in[id]
            THEN [st EXCEPT !.reaching_in[id] = new_in, !.changed = TRUE]
            ELSE st

        \* The second half of the for loop's body: reaching_out of the node.
        UpdateOut(after_in) == SetOut(after_in, node.id, NewOut(node, after_in.reaching_in[node.id]))
    IN
    UpdateOut(SetIn(node.id, NewIn(node, st.reaching_out)))

\* The for loop over cfg.nodes[lo..hi], in list order.  The range is split in
\* halves, and the second half is entered with the value the first half gave,
\* which keeps the evaluation shallow for graphs of hundreds of nodes.
RECURSIVE ForNodes(_, _, _, _)
ForNodes(g, st, lo, hi) ==
    IF lo > hi THEN st
    ELSE IF lo = hi THEN UpdateNode(st, g.nodes[lo])
    ELSE LET first == ForNodes(g, st, lo, (lo + hi) \div 2)
         IN IF first.iterations = st.iterations
            THEN ForNodes(g, first, (lo + hi) \div 2 + 1, hi)
            ELSE first

\* The analysis state before the while loop.
StartReaching(g) ==
    [reaching_in  |-> [id \in {g.nodes[k].id : k \in DOMAIN g.nodes} |-> {}],
     reaching_out |-> [id \in {g.nodes[k].id : k \in DOMAIN g.nodes} |-> {}],
     changed      |-> TRUE,
     iterations   |-> 0]

\* No analysis is running.
NoReaching ==
    [reaching_in |-> <<>>, reaching_out |-> <<>>, changed |-> FALSE, iterations |-> 0]

\* compute_reaching_definitions from its first line to its return: reaching_in
\* when the while loop is left.
compute_reaching_definitions(g) ==
    LET
        RECURSIVE While(_)
        While(st) ==
            IF st.changed /\ st.iterations < max_iterations
            THEN While(ForNodes(g, [st EXCEPT !.changed = FALSE, !.iterations = @ + 1],
                                1, Len(g.nodes)))
            ELSE st
    IN
    While(StartReaching(g)).reaching_in

\* f"Variable '{var}' may be used before initialization", and the like: a
\* message is the sequence of its fixed and its formatted parts.
Message(before, name, after) == <<before, name, after>>

\* find_uninitialized_variables that warns of every use, whatever reaches it.
find_uninitialized_variables_every_use(g, reaching_defs) ==
    LET
        Warned(node, used) ==
            [k \in 1..Len(used) |->
                [variable |-> used[k], node_id |-> node.id, line |-> node.statement.line,
                 message |-> Message("Variable '", used[k],
                                     "' may be used before initialization")]]

        RECURSIVE From(_, _)
        From(lo, hi) ==
            IF lo > hi THEN <<>>
            ELSE IF lo = hi
            THEN (IF HasStatement(g.nodes[lo])
                  THEN Warned(g.nodes[lo], extract_variables_used(g.nodes[lo].statement))
                  ELSE <<>>)
            ELSE From(lo, (lo + hi) \div 2) \o From((lo + hi) \div 2 + 1, hi)
    IN
    From(1, Len(g.nodes))

\* find_uninitialized_variables after its call of compute_reaching_definitions,
\* which gave reaching_defs.  The warnings come in the order of the two for
\* loops: nodes in list order (the list is split in halves), the variables of
\* a node in the order extract_variables_used lists them.
find_uninitialized_variables(g, reaching_defs) ==
    LET
        \* warnings.append({...}) for the variables of one node
        Warned(node, used) ==
            [k \in 1..Len(used) |->
                [variable |-> used[k], node_id |-> node.id, line |-> node.statement.line,
                 message |-> Message("Variable '", used[k],
                                     "' may be used before initialization")]]

        \* has_definition: some pair of reaching_defs.get(node.id) names var
        OfNode(node, defs) ==
            Warned(node, SelectSeq(extract_variables_used(node.statement),
                                   LAMBDA var : \A d \in defs : d[1] # var))

        RECURSIVE From(_, _)
        From(lo, hi) ==
            IF lo > hi THEN <<>>
            ELSE IF lo = hi
            THEN (IF HasStatement(g.nodes[lo])
                  THEN OfNode(g.nodes[lo], reaching_defs[g.nodes[lo].id])
                  ELSE <<>>)
            ELSE From(lo, (lo + hi) \div 2) \o From((lo + hi) \div 2 + 1, hi)
    IN
    From(1, Len(g.nodes))

find_unused_definitions(g) ==
    LET
        Warned(unused) ==
            [k \in 1..Len(unused) |->
                [variable |-> unused[k].variable,
                 definition_nodes |-> unused[k].definitions,
                 message |-> Message("Variable '", unused[k].variable,
                                     "' is defined but never used")]]
    IN
    Warned(SelectSeq(analyze_def_use_chains(g),
                     LAMBDA chain : chain.definitions # <<>> /\ chain.uses = <<>>))

\* ---------------------------------------------------- analyzer (analyzer.py)

\* An Optional[...] field is a sequence: empty for Python's None, and of the one
\* value otherwise.
Absent == <<>>

Present(value) == <<value>>

\* FunctionAnalysisResult(function_name, has_body).  cfg and dataflow are None
\* until analyze_function sets them.
FunctionAnalysisResult(function_name, has_body) ==
    [function_name |-> function_name, has_body |-> has_body, cfg |-> Absent,
     dataflow |-> Absent, warnings |-> <<>>, errors |-> <<>>]

\* The fields of a FunctionInfo that analyze_function reads.
AnalyzedFunction(name, line, body_text, body_start_line, body_end_line) ==
    [name |-> name, line |-> line, body_text |-> body_text,
     body_start_line |-> body_start_line, body_end_line |-> body_end_line]

\* A function with the body body_text, declared on the line before it.
FunctionOf(name, body_text) == AnalyzedFunction(name, 1, Present(body_text), 1, Len(body_text))

\* _extract_function_body on the lines of a file: [body_text, body_start,
\* body_end].  Braces are counted for every character of a line and looked at
\* when the line ends.
_extract_function_body(source_lines, start_line) ==
    LET
        NotFound == [body_text |-> Absent, body_start |-> None, body_end |-> None]

        RECURSIVE Scan(_, _, _)
        RECURSIVE AfterLine(_, _, _)

        \* The for loop at the line with index n (1-based), body_start being
        \* None until an opening brace was seen.
        Scan(n, brace_count, body_start) ==
            IF n > Len(source_lines) THEN NotFound
            ELSE AfterLine(n,
                           brace_count + Count(source_lines[n], "{") - Count(source_lines[n], "}"),
                           IF body_start = None /\ Count(source_lines[n], "{") > 0
                           THEN n ELSE body_start)

        AfterLine(n, brace_count, body_start) ==
            IF body_start # None /\ brace_count = 0
            THEN [body_text |-> Present(SubSeq(source_lines, body_start, n)),
                  body_start |-> body_start, body_end |-> n]
            ELSE Scan(n + 1, brace_count, body_start)
    IN
    IF start_line < 1 \/ start_line > Len(source_lines) THEN NotFound
    ELSE Scan(start_line, 0, None)

\* _parse_cairo1_regex on the lines of a file, inside a contract: the functions
\* it appends for the lines that hold `fn ` and a name (_parse_function).
RECURSIVE ParsedFunctions(_, _)
ParsedFunctions(source_lines, line_num) ==
    LET
        \* re.search(r'fn\s+(\w+)', line): the positions of the names
        Names(line) == {j \in 2..Len(line) : line[j - 1] = "fn" /\ IsWord(line[j])}

        WithBody(name, extracted) ==
            AnalyzedFunction(name, line_num, extracted.body_text, extracted.body_start,
                             extracted.body_end)

        OfLine(line) ==
            IF Names(line) = {} THEN <<>>
            ELSE <<WithBody(line[Leftmost(Names(line))],
                            _extract_function_body(source_lines, line_num))>>
    IN
    IF line_num > Len(source_lines) THEN <<>>
    ELSE OfLine(source_lines[line_num]) \o ParsedFunctions(source_lines, line_num + 1)

\* No call of analyze_contract is under way.
NoContract == [source |-> <<>>, functions |-> <<>>, k |-> 0, results |-> <<>>]

\* analyze_function from its first line to the call of build: the record, the
\* statements, and whether the function goes on to build.
EnterFunction(function) ==
    LET
        result == FunctionAnalysisResult(function.name, function.body_text # Absent)

        Warn(type, message) ==
            [result EXCEPT !.warnings = Append(@, [type |-> type, message |-> message])]

        AfterParse(stmts) ==
            IF stmts = <<>>
            THEN [result |-> Warn("no_statements",
                                  Message("No statements found in function '",
                                          function.name, "'")),
                  statements |-> <<>>, returned |-> TRUE]
            ELSE [result |-> result, statements |-> stmts, returned |-> FALSE]
    IN
    \* if not function.body_text: None and the empty string
    IF function.body_text \in {Absent, Present(<< <<>> >>)}
    THEN [result |-> Warn("no_body", Message("Function '", function.name,
                                             "' has no body to analyze")),
          statements |-> <<>>, returned |-> TRUE]
    ELSE AfterParse(parse(function.body_text[1],
                          \* function.body_start_line or function.line
                          IF function.body_start_line \in {None, 0}
                          THEN function.line ELSE function.body_start_line))

\* No call of analyze_function was made.
NoResult == FunctionAnalysisResult("", FALSE)

\* analyze_function from the return of build to its own: steps 2 to 4.
AnalyzeBuilt(result, g) ==
    [result EXCEPT !.cfg = Present(g),
                   !.dataflow = Present(analyze_all(g)),
                   !.warnings = @ \o find_uninitialized_variables(
                                          g, compute_reaching_definitions(g))
                                  \o find_unused_definitions(g)]


\* ----------------------------------------------------- linker (parser.py)

\* A module path or a symbol-table key "a::b::C" is the sequence
\* <<"a", "b", "C">> of its ::-separated segments.  A file path is the sequence
\* of its parts, the last one the file name without its .cairo suffix
\* (Path.stem).  A Python dict is a function; parsed_files, whose order of
\* insertion the passes follow, is a sequence of [file, contracts] entries.

Last(s) == s[Len(s)]

Front(s) == SubSeq(s, 1, Len(s) - 1)

\* dict[key] = value
Put(dict, key, value) ==
    [k \in DOMAIN dict \cup {key} |-> IF k = key THEN value ELSE dict[k]]

\* dict[key] = value for every key of keys
PutAll(dict, keys, value) ==
    [k \in DOMAIN dict \cup keys |-> IF k \in keys THEN value ELSE dict[k]]

\* The n-th smallest element of a set of numbers.
Nth(S, n) == CHOOSE x \in S : Cardinality({y \in S : y < x}) = n - 1

ImportInfo(module_path, symbols, line) ==
    [module_path |-> module_path, symbols |-> symbols, line |-> line,
     resolved |-> FALSE, stub_created |-> FALSE]

FunctionInfo(name, visibility, decorators, is_stub) ==
    [name |-> name, visibility |-> visibility, parameters |-> <<>>, returns |-> <<>>,
     decorators |-> decorators, is_stub |-> is_stub]

ContractInfo(name, file_path, contract_type, functions) ==
    [name |-> name, file_path |-> file_path, contract_type |-> contract_type,
     functions |-> functions, parse_warnings |-> <<>>]

\* A `use` line of a source file: `use a::b::{X, Y};` is
\* [braces |-> TRUE, path |-> <<"a", "b">>, items |-> <<"X", "Y">>] and
\* `use a::b::X;` is [braces |-> FALSE, path |-> <<"a", "b", "X">>, items |-> <<>>].
UseBraces(path, items) == [braces |-> TRUE, path |-> path, items |-> items]

UseSimple(path) == [braces |-> FALSE, path |-> path, items |-> <<>>]

\* A source file is [uses, mods]: its `use` lines and its contract
\* declarations [name, contract_type, functions], functions being the names
\* of the `fn` lines that follow the declaration.
_extract_imports(source) ==
    LET
        \* _extract_imports (Cairo 1) for one `use` line.
        ExtractImport(use, line_num) ==
            LET
                \* The names whose first character is upper case (parts[-1][0].isupper()).
                UpperNames == {"A", "C", "Helper", "IA", "Other"}
            IN
            IF use.braces THEN ImportInfo(use.path, use.items, line_num)
            ELSE IF Len(use.path) > 1 /\ Last(use.path) \in UpperNames
            THEN ImportInfo(Front(use.path), <<Last(use.path)>>, line_num)
            ELSE ImportInfo(use.path, <<>>, line_num)
    IN
    [k \in DOMAIN source.uses |-> ExtractImport(source.uses[k], k)]

\* _parse_cairo1_regex: the contracts dict, as the sequence of its values in
\* the order of its keys.
_parse_cairo1_regex(source, file_path) ==
    LET
        \* The ContractInfo of declaration mod.
        Declared(mod) ==
            LET
                \* _parse_function for a `fn name() {` line without attributes.
                _parse_function(name) == FunctionInfo(name, "internal", <<>>, FALSE)
            IN
            ContractInfo(mod.name, file_path, mod.contract_type,
                         [k \in DOMAIN mod.functions |-> _parse_function(mod.functions[k])])

        \* contracts[contract_name] = current_contract: the last declaration of a name.
        LastDeclared(mods, name) ==
            mods[Nth({k \in DOMAIN mods : mods[k].name = name},
                     Cardinality({k \in DOMAIN mods : mods[k].name = name}))]

        \* The declarations that introduce a new name, in source order.
        FirstDeclarations(mods) ==
            {k \in DOMAIN mods : \A j \in 1..(k - 1) : mods[j].name # mods[k].name}
    IN
    [n \in 1..Cardinality(FirstDeclarations(source.mods)) |->
        Declared(LastDeclared(source.mods,
                              source.mods[Nth(FirstDeclarations(source.mods), n)].name))]

\* _compute_module_path: the parts after the first src, <<>> for None and ''.
_compute_module_path(file_path) ==
    IF \E k \in DOMAIN file_path : file_path[k] = "src"
    THEN SubSeq(file_path, Min({k \in DOMAIN file_path : file_path[k] = "src"}) + 1,
                Len(file_path))
    ELSE <<>>

\* A CairoParser.
NewParser ==
    [symbol_registry  |-> <<>>,
     stub_registry    |-> <<>>,
     resolved_imports |-> <<>>,
     parsed_files     |-> <<>>,
     imports          |-> <<>>]

\* A cache test that takes an empty cached result for a miss.
CachedWithContracts(P, file_path) ==
    \E k \in DOMAIN P.parsed_files :
        P.parsed_files[k].file = file_path /\ P.parsed_files[k].contracts # <<>>

\* file_key in self.parsed_files
Cached(P, file_path) ==
    \E k \in DOMAIN P.parsed_files : P.parsed_files[k].file = file_path

\* _parse_and_register: the loop over contracts.items() from the k-th on.
RECURSIVE RegisterContracts(_, _, _, _, _)
RegisterContracts(symbol_registry, contracts, k, file_stem, module_path) ==
    LET
        \* The keys _parse_and_register registers a contract under.
        RegisteredKeys(contract) ==
            {<<file_stem, contract.name>>, <<contract.name>>}
                \cup {<<file_stem, contract.functions[j].name>> : j \in DOMAIN contract.functions}
                \cup {<<contract.functions[j].name>> : j \in DOMAIN contract.functions}
                \cup IF module_path = <<>> THEN {}
                     ELSE {Append(module_path, contract.name), module_path}
                            \cup {Append(module_path, contract.functions[j].name) :
                                    j \in DOMAIN contract.functions}
    IN
    IF k > Len(contracts) THEN symbol_registry
    ELSE RegisterContracts(
            PutAll(symbol_registry,
                   RegisteredKeys(contracts[k]), contracts[k]),
            contracts, k + 1, file_stem, module_path)

_parse_and_register(P, file_path, source) ==
    LET
        \* _parse_and_register (Pass 1) of a file that is not in the cache.
        Registered ==
            LET
                \* _parse_and_register: the placeholder module entry.
                RegisterModule(symbol_registry, module_path) ==
                    IF module_path = <<>> THEN symbol_registry
                    ELSE PutAll(symbol_registry, {module_path, <<Last(file_path)>>},
                                ContractInfo(Last(file_path), file_path, "module", <<>>))
            IN
            [P EXCEPT
                !.symbol_registry =
                    RegisterContracts(
                        RegisterModule(@, _compute_module_path(file_path)),
                        _parse_cairo1_regex(source, file_path), 1, Last(file_path),
                        _compute_module_path(file_path)),
                !.parsed_files =
                    Append(@, [file |-> file_path,
                               contracts |-> _parse_cairo1_regex(source, file_path)]),
                !.imports = Put(@, file_path, _extract_imports(source))]
    IN
    IF Cached(P, file_path) THEN P ELSE Registered

\* imp.resolved = True, stub_created left as it is.
ResolvedOnly(imp) == [imp EXCEPT !.resolved = TRUE]

\* imp.resolved = True; imp.stub_created = False
Resolved(imp) == [imp EXCEPT !.resolved = TRUE, !.stub_created = FALSE]

\* module_path.replace('crate::', ''): every crate segment that another
\* segment follows goes (no other name of the model ends in "crate").
RECURSIVE StripCrate(_)
StripCrate(module_path) ==
    IF Len(module_path) < 2 THEN module_path
    ELSE IF Head(module_path) = "crate" THEN StripCrate(Tail(module_path))
    ELSE <<Head(module_path)>> \o StripCrate(Tail(module_path))

\* _resolve_imports_from_symbol_table: is the import found in the table?
FoundInSymbolTable(imp, symbol_registry) ==
    LET
        \* module_path.startswith('crate::')
        StartsWithCrate(module_path) == Len(module_path) > 1 /\ module_path[1] = "crate"
    IN
    \/ imp.module_path \in DOMAIN symbol_registry
    \/ \E k \in DOMAIN imp.symbols : <<imp.symbols[k]>> \in DOMAIN symbol_registry
    \/ /\ StartsWithCrate(imp.module_path)
       /\ \E n \in 1..Len(StripCrate(imp.module_path)) :
            SubSeq(StripCrate(imp.module_path), 1, n) \in DOMAIN symbol_registry

\* _resolve_imports_from_symbol_table(imports), imports the list of file_path.
_resolve_imports_from_symbol_table(P, file_path) ==
    LET
        SymbolTable == <<"<symbol_table>">>

        \* _resolve_imports_from_symbol_table for one import.
        ResolvedFromSymbolTable(imp, symbol_registry) ==
            IF ~imp.resolved /\ FoundInSymbolTable(imp, symbol_registry)
            THEN Resolved(imp) ELSE imp

        \* _resolve_imports_from_symbol_table: the module paths it records.
        NewlyResolved(imports, symbol_registry) ==
            {imports[k].module_path : k \in
                {j \in DOMAIN imports :
                    ~imports[j].resolved /\ FoundInSymbolTable(imports[j], symbol_registry)}}
    IN
    [P EXCEPT
        !.resolved_imports =
            PutAll(@, NewlyResolved(P.imports[file_path], P.symbol_registry), SymbolTable),
        !.imports[file_path] =
            [k \in DOMAIN @ |-> ResolvedFromSymbolTable(@[k], P.symbol_registry)]]

\* Pass 2: the inner loop, once for each of the n contracts left of a file.
RECURSIVE ResolveContracts(_, _, _)
ResolveContracts(P, file_path, n) ==
    IF n = 0 THEN P
    ELSE ResolveContracts(_resolve_imports_from_symbol_table(P, file_path), file_path, n - 1)

\* Pass 2: the loop over parsed_files.items() from the k-th entry on.
RECURSIVE ResolveFiles(_, _)
ResolveFiles(P, k) ==
    IF k > Len(P.parsed_files) THEN P
    ELSE ResolveFiles(ResolveContracts(P, P.parsed_files[k].file,
                                       Len(P.parsed_files[k].contracts)), k + 1)

\* _create_stub_module
_create_stub_module(import_info) ==
    [name           |-> Last(import_info.module_path),
     file_path      |-> <<"<stub>">> \o import_info.module_path,
     contract_type  |-> "stub",
     functions      |-> [k \in DOMAIN import_info.symbols |->
                            FunctionInfo(import_info.symbols[k], "external",
                                         <<"stub">>, TRUE)],
     parse_warnings |-> <<import_info.module_path>>]

\* if imp.module_path not in self.stub_registry: self.stub_registry[...] = stub
WithStub(stub_registry, imp) ==
    IF imp.module_path \in DOMAIN stub_registry THEN stub_registry
    ELSE Put(stub_registry, imp.module_path, _create_stub_module(imp))

\* _create_stubs_for_unresolved: the loop over contract.imports from the k-th on.
RECURSIVE StubImports(_, _, _)
StubImports(P, file_path, k) ==
    LET
        \* _create_stubs_for_unresolved: the body of the innermost loop.
        StubUnresolved ==
            IF ~P.imports[file_path][k].resolved
               /\ P.imports[file_path][k].module_path \notin DOMAIN P.stub_registry
            THEN [P EXCEPT
                    !.stub_registry = WithStub(@, P.imports[file_path][k]),
                    !.imports[file_path][k].stub_created = TRUE]
            ELSE P
    IN
    IF k > Len(P.imports[file_path]) THEN P
    ELSE StubImports(StubUnresolved, file_path, k + 1)

\* _create_stubs_for_unresolved: once for each of the n contracts left of a file.
RECURSIVE StubContracts(_, _, _)
StubContracts(P, file_path, n) ==
    IF n = 0 THEN P
    ELSE StubContracts(StubImports(P, file_path, 1), file_path, n - 1)

\* _create_stubs_for_unresolved: the loop over parsed_files.values().
RECURSIVE StubFiles(_, _)
StubFiles(P, k) ==
    IF k > Len(P.parsed_files) THEN P
    ELSE StubFiles(StubContracts(P, P.parsed_files[k].file,
                                 Len(P.parsed_files[k].contracts)), k + 1)

\* _create_stubs_for_unresolved that also records the stubbed module paths as
\* resolved.
_create_stubs_for_unresolved_as_resolved(P) ==
    LET Q == StubFiles(P, 1)
    IN [Q EXCEPT !.resolved_imports =
            [m \in DOMAIN Q.resolved_imports \cup DOMAIN Q.stub_registry |->
                IF m \in DOMAIN Q.resolved_imports THEN Q.resolved_imports[m]
                ELSE <<"<stub>">>]]

_create_stubs_for_unresolved(P) == StubFiles(P, 1)

\* parse_directories from Pass 1 to its return, for the list cairo_files that
\* _find_all_cairo_files gave: the parser it leaves and the dict it returns.
\* Pass 1 with a failure that leaves the file in the cache, without contracts.
try_parse_and_register_caching(P, file_path, source) ==
    IF source.readable THEN _parse_and_register(P, file_path, source)
    ELSE [P EXCEPT !.parsed_files = Append(@, [file |-> file_path, contracts |-> <<>>])]

\* parse_directories, Pass 1: try: self._parse_and_register(cairo_file), and
\* except Exception, where only a warning is printed.
try_parse_and_register(P, file_path, source) ==
    IF source.readable THEN _parse_and_register(P, file_path, source)
    ELSE P

parse_directories(P, fs, cairo_files, stub_missing) ==
    LET
        RECURSIVE Pass1(_, _)
        Pass1(Q, k) ==
            IF k > Len(cairo_files) THEN Q
            ELSE Pass1(try_parse_and_register(Q, cairo_files[k], fs[cairo_files[k]]), k + 1)

        Pass3(Q) == IF stub_missing THEN _create_stubs_for_unresolved(Q) ELSE Q

        \* all_contracts.update(contracts)
        RECURSIVE Update(_, _, _)
        Update(all_contracts, contracts, k) ==
            IF k > Len(contracts) THEN all_contracts
            ELSE Update(Put(all_contracts, contracts[k].name, contracts[k]), contracts, k + 1)

        \* for contracts in self.parsed_files.values()
        RECURSIVE Collect(_, _, _)
        Collect(all_contracts, parsed_files, k) ==
            IF k > Len(parsed_files) THEN all_contracts
            ELSE Collect(Update(all_contracts, parsed_files[k].contracts, 1), parsed_files, k + 1)

        Return(Q) == [parser |-> Q, all_contracts |-> Collect(<<>>, Q.parsed_files, 1)]
    IN
    Return(Pass3(ResolveFiles(Pass1(P, 1), 1)))

\* ---- parse_file

\* The files of a file system fs (a function from file paths to sources).
NoFile == <<>>

\* _find_module_file: the directory containing src/, from base_dir upwards.
RECURSIVE ProjectRoot(_, _)
ProjectRoot(fs, project_root) ==
    LET
        \* directory.exists()
        DirExists(directory) ==
            \E f \in DOMAIN fs :
                Len(f) > Len(directory) /\ SubSeq(f, 1, Len(directory)) = directory
    IN
    IF project_root = <<>> THEN project_root
    ELSE IF DirExists(Append(project_root, "src")) THEN project_root
    ELSE ProjectRoot(fs, Front(project_root))

_find_module_file(fs, module_path, base_dir) ==
    LET
        Candidates ==
            LET
                \* _find_module_file: the candidates under a root for parts.
                CrateCandidates(root, parts) ==
                    <<root \o <<"src">> \o parts, root \o <<"src">> \o parts \o <<"lib">>>>

                RegularCandidates(parts) ==
                    <<base_dir \o <<"src">> \o parts, base_dir \o <<"src">> \o parts \o <<"lib">>,
                      base_dir \o parts>>

                WithParent(candidates, parent_candidates, parts) ==
                    IF Len(parts) > 1 THEN candidates \o parent_candidates ELSE candidates
            IN
            IF module_path[1] = "crate"
            THEN WithParent(CrateCandidates(ProjectRoot(fs, base_dir), Tail(module_path)),
                            CrateCandidates(ProjectRoot(fs, base_dir), Front(Tail(module_path))),
                            Tail(module_path))
            ELSE WithParent(RegularCandidates(module_path),
                            RegularCandidates(Front(module_path)),
                            module_path)

        \* for candidate in candidates: if candidate.exists(): return candidate
        FirstExisting(candidates) ==
            IF \E k \in DOMAIN candidates : candidates[k] \in DOMAIN fs
            THEN candidates[Min({k \in DOMAIN candidates : candidates[k] \in DOMAIN fs})]
            ELSE NoFile
    IN
    FirstExisting(Candidates)

\* _try_resolve_from_registry
_try_resolve_from_registry(import_info, symbol_registry) ==
    \/ import_info.module_path \in DOMAIN symbol_registry
    \/ \E k \in DOMAIN import_info.symbols :
            <<import_info.symbols[k]>> \in DOMAIN symbol_registry

\* parse_file: the symbols it registers, the contracts from the k-th on.
RECURSIVE RegisterByName(_, _, _, _)
RegisterByName(symbol_registry, contracts, k, file_stem) ==
    IF k > Len(contracts) THEN symbol_registry
    ELSE RegisterByName(
            PutAll(symbol_registry,
                   {<<file_stem, contracts[k].name>>, <<contracts[k].name>>},
                   contracts[k]),
            contracts, k + 1, file_stem)

\* parse_file up to the cache entry.
Parsed(P, file_path, source) ==
    [P EXCEPT
        !.symbol_registry =
            RegisterByName(@, _parse_cairo1_regex(source, file_path), 1, Last(file_path)),
        !.parsed_files =
            Append(@, [file |-> file_path,
                       contracts |-> _parse_cairo1_regex(source, file_path)])]

\* contract.imports = imports
WithImports(r, file_path) ==
    [r.parser EXCEPT !.imports = Put(@, file_path, r.imports)]

RECURSIVE parse_file(_, _, _, _)
RECURSIVE _resolve_imports_recursive(_, _, _, _, _)

\* _resolve_imports_recursive: the module file has been looked up.
ResolveImport(P, fs, imp, module_file) ==
    LET
        \* imp.resolved = False; imp.stub_created = True, and the stub when the
        \* registry has none for the module path.
        Stubbed ==
            [parser |-> [P EXCEPT !.stub_registry = WithStub(@, imp)],
             imp    |-> [imp EXCEPT !.resolved = FALSE, !.stub_created = TRUE]]

        \* _resolve_imports_recursive: the import is not found as a file.
        NotFound ==
            IF _try_resolve_from_registry(imp, P.symbol_registry)
            THEN [parser |-> P, imp |-> Resolved(imp)]
            ELSE Stubbed
    IN
    IF module_file = NoFile THEN NotFound
    \* except Exception: parse_file raised, in its read_text
    ELSE IF ~Cached(P, module_file) /\ ~fs[module_file].readable THEN Stubbed
    ELSE [parser |-> [parse_file(P, fs, module_file, TRUE) EXCEPT
                        !.resolved_imports = Put(@, imp.module_path, module_file)],
          imp    |-> Resolved(imp)]

\* _resolve_imports_recursive: the loop body; the parser and the import after it.
ResolveNext(P, fs, imp, base_dir) ==
    IF imp.module_path \in DOMAIN P.resolved_imports
    THEN [parser |-> P, imp |-> Resolved(imp)]
    ELSE ResolveImport(P, fs, imp, _find_module_file(fs, imp.module_path, base_dir))

\* _resolve_imports_recursive: the loop goes on after the k-th import.
ResolveRest(r, fs, imports, k, base_dir) ==
    _resolve_imports_recursive(r.parser, fs, [imports EXCEPT ![k] = r.imp], k + 1, base_dir)

\* _resolve_imports_recursive from the k-th import on: the parser and the
\* imports after it.
_resolve_imports_recursive(P, fs, imports, k, base_dir) ==
    IF k > Len(imports) THEN [parser |-> P, imports |-> imports]
    ELSE ResolveRest(ResolveNext(P, fs, imports[k], base_dir), fs, imports, k, base_dir)

\* parse_file of an existing file; when read_text raises, the parser is as it
\* was at the call.
parse_file(P, fs, file_path, stub_missing) ==
    IF Cached(P, file_path) THEN P
    ELSE IF ~fs[file_path].readable THEN P
    ELSE IF stub_missing
    THEN WithImports(
            _resolve_imports_recursive(Parsed(P, file_path, fs[file_path]), fs,
                                       _extract_imports(fs[file_path]), 1,
                                       Front(file_path)),
            file_path)
    ELSE WithImports([parser  |-> Parsed(P, file_path, fs[file_path]),
                      imports |-> _extract_imports(fs[file_path])], file_path)

RECURSIVE _find_all_cairo_files(_, _)
_find_all_cairo_files(fs, directories) ==
    LET
        CairoFiles(directory) ==
            LET
                \* _find_all_cairo_files: the files under a directory, tests excluded.
                IsTest(f) ==
                    \/ Last(f) = "tests"
                    \/ \E k \in 1..(Len(f) - 1) : f[k] \in {"tests", "test"}
            IN
            {f \in DOMAIN fs :
                /\ Len(f) > Len(directory)
                /\ SubSeq(f, 1, Len(directory)) = directory
                /\ ~IsTest(f)}

        \* The orders rglob may yield a set of files in.
        Orders(S) == {s \in [1..Cardinality(S) -> S] : \A x \in S : \E k \in DOMAIN s : s[k] = x}
    IN
    IF directories = <<>> THEN {<<>>}
    ELSE {first \o rest :
            first \in Orders(CairoFiles(Head(directories))),
            rest \in _find_all_cairo_files(fs, Tail(directories))}

\* ------------------------------------------------------------------ inputs

\* Function bodies (body_text split at '\n'), one token sequence per line.
IfElseBody ==
    << <<"if", "cond", "{">>,
       <<"let", "a", "=", "1", ";">>,
       <<"}", "else", "{">>,
       <<"let", "a", "=", "2", ";">>,
       <<"}">>,
       <<"return", "a", ";">> >>

StorageBody ==
    << <<"let", "v", "=", "self", ".", "counter", ".", "read", "(", ")", ";">>,
       <<"self", ".", "counter", ".", "write", "(", "v", "+", "1", ")", ";">> >>

RECURSIVE SeqsUpTo(_, _)
SeqsUpTo(S, n) ==
    IF n = 0 THEN {<<>>}
    ELSE SeqsUpTo(S, n - 1)
            \cup {Append(s, x) : s \in {t \in SeqsUpTo(S, n - 1) : Len(t) = n - 1}, x \in S}

\* The dispatcher call of section 8 of the specification.
DispatcherLine ==
    <<"IErc20Dispatcher", "{", "address", ":", "a", "}", ".",
      "transfer", "(", "to", ",", "amt", ")", ";">>

Bodies ==
    LET
        LinearBody ==
            << <<"let", "x", "=", "1", ";">>,
               <<"let", "y", "=", "x", "+", "1", ";">>,
               <<"return", "y", ";">> >>

        MatchReturnBody ==
            << <<"match", "x", "{">>,
               <<"return", "x", ";">>,
               <<"}">> >>

        EmptyBody == << <<"{">>, <<"}">> >>

        \* A struct literal on the line after the closing brace of an if.
        StructAfterIfBody ==
            << <<"if", "cond", "{">>,
               <<"let", "a", "=", "1", ";">>,
               <<"}">>,
               <<"let", "p", "=", "Point", "{", "x", ":", "1", "}", ";">>,
               <<"return", "a", ";">> >>

        \* Lines with and without a call, with and without 'dispatcher' and '::'.
        CallLines ==
            {DispatcherLine,
             <<"foo", "(", "a", ")", ";">>,
             <<"a", "::", "foo", "(", ")", ";">>,
             <<"dispatcher", ".", "foo", "(", "a", ")", ";">>,
             <<"let", "v", "=", "a", "::", "foo", "(", "a", ")", ";">>}
    IN
          {IfElseBody, StorageBody, LinearBody, MatchReturnBody, EmptyBody, StructAfterIfBody}
    \cup (SeqsUpTo(CallLines, MaxLen) \ {<<>>})

Placed(shape, depth, line_num) ==
    [shape EXCEPT !.block_depth = depth, !.line = line_num]

Vectors(n) ==
    LET
        \* Statement vectors of length n: the first statement at depth 0 or 1, every
        \* other one at most one block deeper than the statement before it.
        Nested(v) ==
            \A k \in DOMAIN v : v[k][2] <= (IF k = 1 THEN 1 ELSE v[k - 1][2] + 1)

        \* The statements CFGBuilder.build is handed directly: one of each kind the
        \* builder tells apart.
        Shapes ==
            {IfStmt(<<"c">>, 0), ElseStmt(0), MatchStmt(<<"x">>, 0), ReturnStmt(<<"x">>, 0),
             LetBindingStmt("x", <<"y">>, 0)}
    IN
    {[k \in 1..n |-> Placed(v[k][1], v[k][2], k)] :
        v \in {w \in [1..n -> Shapes \X (0..n)] : Nested(w)}}

\* The vector section 4.5 of the specification describes for IfElseBody:
\* headers at the outer depth, bodies one deeper.
IfElseVector ==
    << Placed(IfStmt(<<"cond">>, 0), 0, 1),
       Placed(LetBindingStmt("a", <<"1">>, 0), 1, 2),
       Placed(ElseStmt(0), 0, 3),
       Placed(LetBindingStmt("a", <<"2">>, 0), 1, 4),
       Placed(ReturnStmt(<<"a">>, 0), 0, 6) >>

\* if c { return x; } else { return x; }
IfElseReturnVector ==
    << Placed(IfStmt(<<"c">>, 0), 0, 1),
       Placed(ReturnStmt(<<"x">>, 0), 1, 2),
       Placed(ElseStmt(0), 0, 3),
       Placed(ReturnStmt(<<"x">>, 0), 1, 4) >>

DirectVectors ==
    LET
        Let == LetBindingStmt("x", <<"y">>, 0)

        Return == ReturnStmt(<<"x">>, 0)

        \* The statements of a block, before they are given their depth.
        Runs == {<<>>, <<Let>>, <<Return>>, <<Let, Return>>, <<Return, Let>>}

        At(run, depth) == [k \in DOMAIN run |-> <<run[k], depth>>]

        InOrder(v) == [k \in DOMAIN v |-> Placed(v[k][1], v[k][2], k)]

        \* if c { then_run } else { else_run } rest
        IfElseVectors ==
            {InOrder(<< <<IfStmt(<<"c">>, 0), 0>> >> \o At(then_run, 1)
                        \o << <<ElseStmt(0), 0>> >> \o At(else_run, 1) \o At(rest, 0)) :
                then_run \in Runs, else_run \in Runs, rest \in {<<>>, <<Let>>}}
    IN
    UNION {Vectors(n) : n \in 0..MaxLen} \cup {IfElseVector, IfElseReturnVector}
        \cup IfElseVectors

\* Longest statement vector of the reaching-definitions inputs.
RDLen == 2

\* Number of match statements of the chain input.
ChainLen == 100

RDVectors ==
    LET
        \* A let binding of x that a second one overwrites.
        KillVector ==
            <<Placed(LetBindingStmt("x", <<"y">>, 1), 0, 1),
              Placed(LetBindingStmt("x", <<"y">>, 2), 0, 2),
              Placed(ReturnStmt(<<"x">>, 3), 0, 3)>>

        \* n match statements in sequence, each with a one-statement body: the first
        \* body binds x, the others assert on it; x is returned after the last one.
        Chain(n) ==
            [k \in 1..(2 * n + 1) |->
                IF k = 2 * n + 1 THEN Placed(ReturnStmt(<<"x">>, k), 0, k)
                ELSE IF k % 2 = 1 THEN Placed(MatchStmt(<<"x">>, k), 0, k)
                ELSE IF k = 2 THEN Placed(LetBindingStmt("x", <<"y">>, k), 1, k)
                ELSE Placed(AssertStmt(<<"x">>, k), 1, k)]
    IN
    UNION {Vectors(n) : n \in 0..RDLen}
        \cup {IfElseVector, IfElseReturnVector, KillVector, Chain(ChainLen)}

\* ---- the files on disk

MaxUses == 2

\* The text of a file; readable is FALSE for a file whose read_text raises.
Source(uses, mods) == [uses |-> uses, mods |-> mods, readable |-> TRUE]

Mod(name, contract_type, functions) ==
    [name |-> name, contract_type |-> contract_type, functions |-> functions]

Disks ==
    LET
        FileA == <<"p", "src", "a">>

        FileB == <<"q", "src", "b">>

        FileC == <<"p", "src", "c">>

        SourcesOfA ==
            LET
                \* The `use` lines of a.cairo: b.cairo lies in another project, c.cairo in its
                \* own.
                UseLines ==
                    {UseSimple(<<"crate", "b", "Helper">>), UseBraces(<<"crate", "b">>, <<"Other">>),
                     UseSimple(<<"crate", "c">>)}
            IN
            {Source(uses, <<Mod("A", "contract", <<"f">>), Mod("IA", "interface", <<"f">>)>>) :
                uses \in SeqsUpTo(UseLines, MaxUses)}

        SourcesOfB == {Source(<<>>, <<Mod("Helper", "contract", <<"g">>)>>)}

        \* No file defines ext.
        SourcesOfC ==
            {Source(uses, mods) :
                uses \in {<<>>, <<UseSimple(<<"crate", "a", "A">>)>>,
                          <<UseBraces(<<"crate", "b">>, <<"Helper">>)>>,
                          <<UseBraces(<<"ext">>, <<"Helper", "Other">>)>>},
                mods \in {<<>>, <<Mod("C", "contract", <<>>)>>}}
            \cup {[Source(<<>>, <<>>) EXCEPT !.readable = FALSE]}
            \* c.cairo with a contract of the name of the contract of a.cairo.
            \cup {Source(<<>>, <<Mod("A", "contract", <<>>)>>)}
    IN
    {[f \in {FileA, FileB, FileC} |->
        IF f = FileA THEN a ELSE IF f = FileB THEN b ELSE c] :
        a \in SourcesOfA, b \in SourcesOfB, c \in SourcesOfC}

\* ---- the file of a contract

\* The lines of a source file after the line that opens the contract.
MaxLines == 4

\* A contract: its two opening lines, then declarations without and with a
\* body, statements and closing braces.
ContractSources ==
    LET
        Opening == << <<"#[starknet::contract]">>, <<"mod", "A", "{">> >>

        Lines ==
            {<<"fn", "f", "(", ")", ";">>, <<"fn", "g", "(", ")", "{">>,
             <<"let", "y", "=", "x", ";">>, <<"}">>}

        \* A contract of two functions with a branch, a match and returns.
        Branching ==
            << <<"fn", "g", "(", ")", "{">>,
               <<"if", "cond", "{">>,
               <<"return", "a", ";">>,
               <<"}">>,
               <<"let", "a", "=", "1", ";">>,
               <<"}">>,
               <<"fn", "f", "(", ")", "{">>,
               <<"match", "x", "{">>,
               <<"foo", "(", "x", ")", ";">>,
               <<"}">>,
               <<"return", "x", ";">>,
               <<"}">> >>
    IN
    {Opening \o lines : lines \in SeqsUpTo(Lines, MaxLines) \cup {Branching}}

MaxCalls == 2

\* ------------------------------------------------------------------- state

VARIABLES
    body,        \* FunctionInfo.body_text, as lines of tokens
    statements,  \* the statement vector under analysis
    builder,     \* the CFGBuilder: [cfg, node_counter]
    i,           \* _build_sequential: index of the outermost while loop
    current_id,  \* _build_sequential: current_id of the outermost call
    dataflow,    \* FunctionAnalysisResult.dataflow
    rd,          \* compute_reaching_definitions: its locals
    pc,          \* position in the pipeline
    disk,        \* the .cairo files: file path |-> source
    parser,      \* the CairoParser
    call,        \* the call of the CairoParser under way, or the last one
    func_result, \* analyze_function: the FunctionAnalysisResult it fills
    contract,    \* analyze_contract: [functions, k, results]
    paths        \* find_all_paths: [max_paths, found]

progvars ==
    <<body, statements, builder, i, current_id, dataflow, rd, pc, func_result, contract,
      paths>>

vars ==
    <<body, statements, builder, i, current_id, dataflow, rd, pc, disk, parser, call,
      func_result, contract, paths>>

NewBuilder == [cfg |-> ControlFlowGraph, node_counter |-> 0]

\* No call of the CairoParser is under way and none was made.
\* find_all_paths was not called.
NoPaths == [max_paths |-> 0, found |-> <<>>]

Idle == [op |-> "none", pass |-> 0, files |-> <<>>, stub_missing |-> FALSE, calls |-> 0]

cfg == builder.cfg

Init ==
    /\ builder = NewBuilder
    /\ i = 0
    /\ current_id = None
    /\ dataflow = NoDataflow
    /\ rd = NoReaching
    /\ disk = <<>>
    /\ parser = NewParser
    /\ call = Idle
    /\ paths = NoPaths
    /\ \/ /\ body \in Bodies
          /\ statements = <<>>
          /\ func_result = NoResult
          /\ pc = "parse"
       \/ /\ body = <<>>
          /\ statements \in DirectVectors
          /\ func_result = FunctionAnalysisResult("f", TRUE)
          /\ pc = "build"
    /\ contract = [NoContract EXCEPT !.functions = <<FunctionOf("f", body)>>, !.k = 1]

\* analyze_function up to step 1, statement_parser.parse(body_text,
\* start_line): without a body, and without statements, the function returns
\* before a CFG is built.
Parse ==
    /\ pc = "parse"
    /\ \E entered \in {EnterFunction(contract.functions[contract.k])} :
         /\ statements' = entered.statements
         /\ func_result' = entered.result
         /\ pc' = IF entered.returned THEN "done" ELSE "build"
    /\ UNCHANGED <<body, builder, i, current_id, dataflow, rd, disk, parser, call, contract, paths>>

\* build that leaves node_counter as the last call left it.
BuildStartKeepingCounter(b) ==
    LET b0 == [b EXCEPT !.cfg = ControlFlowGraph]
        b1 == _create_node(b0, "entry", NoStatement)
        b2 == [b1 EXCEPT !.cfg.entry_node_id = b0.node_counter]
        b3 == _create_node(b2, "exit", NoStatement)
    IN [b3 EXCEPT !.cfg.exit_node_ids = Append(@, b2.node_counter)]

\* CFGBuilder.build up to the call of _build_sequential.
BuildStart(b) ==
    LET b0 == [b EXCEPT !.cfg = ControlFlowGraph, !.node_counter = 0]
        b1 == _create_node(b0, "entry", NoStatement)
        b2 == [b1 EXCEPT !.cfg.entry_node_id = b0.node_counter]
        b3 == _create_node(b2, "exit", NoStatement)
    IN [b3 EXCEPT !.cfg.exit_node_ids = Append(@, b2.node_counter)]

ExitId(b) == b.cfg.exit_node_ids[1]

\* CFGBuilder.build from call to return: the builder it leaves.
Build(b, stmts) ==
    LET
        \* if current_id is not None: add_edge(current_id, exit_node.id)
        Finish(r, exit_id) ==
            IF r.current_id # None THEN Edge(r.b, r.current_id, exit_id) ELSE r.b

        Sequential(b0) ==
            IF stmts = <<>> THEN Edge(b0, b0.cfg.entry_node_id, ExitId(b0))
            ELSE Finish(_build_sequential(b0, stmts, b0.cfg.entry_node_id, ExitId(b0), 1),
                        ExitId(b0))
    IN
    Sequential(BuildStart(b))

\* analyze_function from call to return, when nothing raises: [result, builder].
analyze_function(b, function) ==
    LET
        Built_(result, b1) == [result |-> AnalyzeBuilt(result, b1.cfg), builder |-> b1]

        After(entered) ==
            IF entered.returned THEN [result |-> entered.result, builder |-> b]
            ELSE Built_(entered.result, Build(b, entered.statements))
    IN
    After(EnterFunction(function))

build ==
    /\ pc = "build"
    /\ LET b == BuildStart(builder)
       IN IF statements = <<>>
          THEN /\ builder' = Edge(b, b.cfg.entry_node_id, ExitId(b))
               /\ pc' = "built"
               /\ UNCHANGED <<i, current_id, paths>>
          ELSE /\ builder' = b
               /\ i' = 1
               /\ current_id' = b.cfg.entry_node_id
               /\ pc' = "seq"
    /\ UNCHANGED <<body, statements, dataflow, rd, disk, parser, call, func_result, contract, paths>>

\* One turn of the while loop of the outermost _build_sequential.
build_step ==
    LET
        \* The state after a turn r of the outermost loop of _build_sequential: the
        \* turn that ends the loop also runs the rest of build (the edge from the last
        \* live node to the exit).
        AfterTurn(r, vector, exit_id) ==
            IF r.returned
            THEN [builder |-> r.b, current_id |-> None, i |-> r.i, pc |-> "built"]
            ELSE IF r.i > Len(vector)
            THEN [builder |-> Edge(r.b, r.current_id, exit_id), current_id |-> r.current_id,
                  i |-> r.i, pc |-> "built"]
            ELSE [builder |-> r.b, current_id |-> r.current_id, i |-> r.i, pc |-> "seq"]
    IN
    /\ pc = "seq"
    /\ \E next \in {AfterTurn(SeqStep(builder, statements, i, current_id, ExitId(builder)),
                             statements, ExitId(builder))} :
         /\ builder' = next.builder
         /\ current_id' = next.current_id
         /\ i' = next.i
         /\ pc' = next.pc
    /\ UNCHANGED <<body, statements, dataflow, rd, disk, parser, call, func_result, contract, paths>>

\* analyze_function, steps 2 to 4: result.cfg, DataflowAnalyzer(cfg).analyze_all()
\* and the warnings of the two find_ methods.
analyze ==
    /\ pc = "built"
    /\ func_result' = AnalyzeBuilt(func_result, cfg)
    /\ dataflow' = func_result'.dataflow[1]
    /\ pc' = "done"
    /\ UNCHANGED <<body, statements, builder, i, current_id, rd, disk, parser, call, contract, paths>>

\* The largest max_paths find_all_paths is called with, besides its default.
MaxPaths == 3

\* find_all_paths(max_paths) on the builder whose build has returned.
call_find_all_paths ==
    /\ pc = "built"
    /\ \E max_paths \in 0..MaxPaths \cup {DefaultMaxPaths} :
         paths' = [max_paths |-> max_paths, found |-> find_all_paths(cfg, max_paths)]
    /\ pc' = "paths"
    /\ UNCHANGED <<body, statements, builder, i, current_id, dataflow, rd, disk, parser, call,
                   func_result, contract>>

Next == Parse \/ build \/ build_step \/ analyze \/ call_find_all_paths

Spec == Init /\ [][Next]_vars

\* ------------------------------------------------ analyze_contract, stepwise

InitContract ==
    /\ builder = NewBuilder
    /\ i = 0
    /\ current_id = None
    /\ dataflow = NoDataflow
    /\ rd = NoReaching
    /\ disk = <<>>
    /\ parser = NewParser
    /\ call = Idle
    /\ paths = NoPaths
    /\ body = <<>>
    /\ statements = <<>>
    /\ func_result = NoResult
    /\ \E source \in ContractSources :
         contract = [NoContract EXCEPT !.source = source,
                                       !.functions = ParsedFunctions(source, 1), !.k = 1]
    /\ pc = "loop"

\* analyze_contract: the for loop calls analyze_function(function).
call_analyze_function ==
    /\ pc = "loop"
    /\ contract.k <= Len(contract.functions)
    /\ body' = IF contract.functions[contract.k].body_text = Absent THEN <<>>
               ELSE contract.functions[contract.k].body_text[1]
    /\ func_result' = NoResult
    /\ pc' = "parse"
    /\ UNCHANGED <<statements, builder, i, current_id, dataflow, rd, disk, parser, call, contract, paths>>

\* analyze_function: a step inside the try block raises, and the except clause
\* appends the error string.  result.cfg is set when build and to_dict have
\* returned, so that a failure of the dataflow analysis leaves it in the record.
raise ==
    LET
        \* The try block of analyze_function is entered for this function.
        HasBodyText(function) == function.body_text \notin {Absent, Present(<< <<>> >>)}
    IN
    /\ pc \in {"parse", "build", "seq", "built"}
    /\ HasBodyText(contract.functions[contract.k])
    /\ \E cfg_stored \in {c \in BOOLEAN : c => pc = "built"} :
         func_result' =
            [FunctionAnalysisResult(contract.functions[contract.k].name, TRUE)
                EXCEPT !.cfg = IF cfg_stored THEN Present(cfg) ELSE Absent,
                       !.errors = <<Message("Analysis failed: ", "e", "")>>]
    /\ pc' = "done"
    /\ UNCHANGED <<body, statements, builder, i, current_id, dataflow, rd, disk, parser, call, contract, paths>>

\* analyze_contract: result.functions.append(func_result)
append_result ==
    /\ pc = "done"
    /\ contract' = [contract EXCEPT !.results = Append(@, func_result), !.k = @ + 1]
    /\ pc' = "loop"
    /\ UNCHANGED <<body, statements, builder, i, current_id, dataflow, rd, disk, parser, call, func_result, paths>>

NextContract ==
    call_analyze_function \/ Parse \/ build \/ build_step \/ analyze \/ raise \/ append_result

SpecContract == InitContract /\ [][NextContract]_vars

\* ------------------------------------------ reaching definitions, stepwise

InitRD ==
    /\ builder = NewBuilder
    /\ i = 0
    /\ current_id = None
    /\ dataflow = NoDataflow
    /\ rd = NoReaching
    /\ disk = <<>>
    /\ parser = NewParser
    /\ call = Idle
    /\ paths = NoPaths
    /\ func_result = NoResult
    /\ contract = NoContract
    /\ body = <<>>
    /\ statements \in RDVectors
    /\ pc = "build"

\* compute_reaching_definitions is called on the CFG build returned.
rd_start ==
    /\ pc = "built"
    /\ rd' = StartReaching(cfg)
    /\ pc' = "rd"
    /\ UNCHANGED <<body, statements, builder, i, current_id, dataflow, disk, parser, call, func_result, contract, paths>>

\* One turn of the while loop: changed = False, iterations += 1, and the for
\* loop over cfg.nodes.
rd_iterate ==
    /\ pc = "rd"
    /\ rd.changed /\ rd.iterations < max_iterations
    /\ rd' = ForNodes(cfg, [rd EXCEPT !.changed = FALSE, !.iterations = @ + 1],
                      1, Len(cfg.nodes))
    /\ UNCHANGED <<body, statements, builder, i, current_id, dataflow, pc, disk, parser, call, func_result, contract, paths>>

\* The while loop is left: return reaching_in.
rd_return ==
    /\ pc = "rd"
    /\ ~(rd.changed /\ rd.iterations < max_iterations)
    /\ pc' = "rd_done"
    /\ UNCHANGED <<body, statements, builder, i, current_id, dataflow, rd, disk, parser, call, func_result, contract, paths>>

\* find_uninitialized_variables: the loops over the nodes and their variables,
\* with reaching_defs as compute_reaching_definitions returned it; analyze_function
\* extends result.warnings with the list.
warn ==
    /\ pc = "rd_done"
    /\ func_result' = [func_result EXCEPT
                          !.warnings = @ \o find_uninitialized_variables(cfg, rd.reaching_in)]
    /\ pc' = "warned"
    /\ UNCHANGED <<body, statements, builder, i, current_id, dataflow, rd, disk, parser, call, contract, paths>>

NextRD == build \/ build_step \/ rd_start \/ rd_iterate \/ rd_return \/ warn

SpecRD == InitRD /\ [][NextRD]_vars

\* ------------------------------------------------------- CairoParser, calls

InitLink ==
    /\ builder = NewBuilder
    /\ i = 0
    /\ current_id = None
    /\ dataflow = NoDataflow
    /\ rd = NoReaching
    /\ body = <<>>
    /\ statements = <<>>
    /\ pc = "link"
    /\ disk \in Disks
    /\ parser = NewParser
    /\ call = Idle
    /\ paths = NoPaths
    /\ func_result = NoResult
    /\ contract = NoContract

\* parser.parse_file(file_path, stub_missing)
call_parse_file ==
    /\ call.pass = 0 /\ call.calls < MaxCalls
    /\ \E file_path \in DOMAIN disk, stub_missing \in BOOLEAN :
         /\ parser' = parse_file(parser, disk, file_path, stub_missing)
         /\ call' = [op |-> "parse_file", pass |-> 0, files |-> <<>>,
                     stub_missing |-> stub_missing, calls |-> call.calls + 1]
    /\ UNCHANGED <<disk, progvars, paths>>

\* parser.parse_directories(directories, stub_missing) up to Pass 1.
call_parse_directories ==
    LET
        \* r does not exist, and p/src/a is a file.
        Directories ==
            {<<<<"p">>>>, <<<<"q">>>>, <<<<"p">>, <<"q">>>>,
             <<<<"r">>>>, <<<<"q">>, <<"p", "src", "a">>>>}

        \* directory.exists()
        Exists(directory) ==
            \E f \in DOMAIN disk :
                Len(f) >= Len(directory) /\ SubSeq(f, 1, Len(directory)) = directory

        \* directory.is_dir()
        IsDir(directory) == Exists(directory) /\ directory \notin DOMAIN disk

        \* raise FileNotFoundError / ValueError: the call is over.
        Raised(stub_missing) ==
            [op |-> "raised", pass |-> 0, files |-> <<>>,
             stub_missing |-> stub_missing, calls |-> call.calls + 1]
    IN
    /\ call.pass = 0 /\ call.calls < MaxCalls
    /\ \E directories \in Directories, stub_missing \in BOOLEAN :
         IF \A k \in DOMAIN directories : IsDir(directories[k])
         THEN \E cairo_files \in _find_all_cairo_files(disk, directories) :
                call' = [op |-> "parse_directories", pass |-> 1, files |-> cairo_files,
                         stub_missing |-> stub_missing, calls |-> call.calls + 1]
         ELSE call' = Raised(stub_missing)
    /\ UNCHANGED <<disk, parser, progvars, paths>>

\* Pass 1, one file.
pass1 ==
    /\ call.pass = 1 /\ call.files # <<>>
    /\ parser' = try_parse_and_register(parser, Head(call.files), disk[Head(call.files)])
    /\ call' = [call EXCEPT !.files = Tail(@)]
    /\ UNCHANGED <<disk, progvars, paths>>

\* Pass 2.
pass2 ==
    /\ call.pass = 1 /\ call.files = <<>>
    /\ parser' = ResolveFiles(parser, 1)
    /\ call' = [call EXCEPT !.pass = 2]
    /\ UNCHANGED <<disk, progvars, paths>>

\* Pass 3 and the return of parse_directories.
pass3 ==
    /\ call.pass = 2
    /\ parser' = IF call.stub_missing THEN _create_stubs_for_unresolved(parser) ELSE parser
    /\ call' = [call EXCEPT !.pass = 0]
    /\ UNCHANGED <<disk, progvars, paths>>

NextLink == call_parse_file \/ call_parse_directories \/ pass1 \/ pass2 \/ pass3

SpecLink == InitLink /\ [][NextLink]_vars

\* ------------------------------------------------------------ graph notions

\* build has returned a CFG.
Built == pc \in {"built", "done"} /\ cfg.entry_node_id # None

NodeIds(g) == {g.nodes[k].id : k \in DOMAIN g.nodes}

NodeOf(g, id) == g.nodes[get_node(g, id)]

SuccessorsOf(g, id) == Range(NodeOf(g, id).successors)

\* The node ids reachable from S along successor edges.
RECURSIVE ReachableFrom(_, _)
ReachableFrom(g, S) ==
    LET T == S \cup UNION {SuccessorsOf(g, id) : id \in S}
    IN IF T = S THEN S ELSE ReachableFrom(g, T)

\* The node ids from which some node of S is reachable along successor edges.
RECURSIVE Reaching(_, _)
Reaching(g, S) ==
    LET T == S \cup {id \in NodeIds(g) : SuccessorsOf(g, id) \cap S # {}}
    IN IF T = S THEN S ELSE Reaching(g, T)

\* The node whose statement is on line line_num (0 if there is none).
NodeAtLine(g, line_num) ==
    Leftmost({g.nodes[k].id : k \in {j \in DOMAIN g.nodes :
                HasStatement(g.nodes[j]) /\ g.nodes[j].statement.line = line_num}}
            )

\* ------------------------------------------------------------------ claims

\* C1: in every CFG returned by build, b is in the successors list of a if and
\* only if a is in the predecessors list of b.
C1_EdgeConsistency ==
    LET
        PredecessorsOf(g, id) == Range(NodeOf(g, id).predecessors)
    IN
    Built =>
        \A a \in NodeIds(cfg) : \A b \in NodeIds(cfg) :
            b \in SuccessorsOf(cfg, a) <=> a \in PredecessorsOf(cfg, b)

\* C1 witness: a returned CFG with a branch node that has two successors.
C1_Witness ==
    /\ Built
    /\ \E a \in NodeIds(cfg) :
         NodeOf(cfg, a).node_type = "branch" /\ Cardinality(SuccessorsOf(cfg, a)) = 2

\* C2 (as claimed): in every CFG returned by build every node is reachable from
\* the entry node along successor edges.
C2_AllReachableFromEntry ==
    Built => NodeIds(cfg) \subseteq ReachableFrom(cfg, {cfg.entry_node_id})

\* C3: in every CFG built from at least one statement, every non-exit node has
\* a path along successor edges to the exit node.
C3_ExitReachable ==
    (Built /\ Len(statements) >= 1) =>
        NodeIds(cfg) \subseteq Reaching(cfg, Range(cfg.exit_node_ids))

\* C3 witness: a returned CFG in which a return inside an if block and the
\* merge node of that if both lead to the exit.
C3_Witness ==
    /\ Built
    /\ \E k \in DOMAIN cfg.nodes :
         /\ cfg.nodes[k].statement.stmt_type = "return"
         /\ cfg.nodes[k].statement.block_depth > 0
    /\ \E k \in DOMAIN cfg.nodes :
         /\ cfg.nodes[k].node_type = "merge"
         /\ cfg.nodes[k].predecessors # <<>>

\* parse_directories has returned and stubbing was enabled.
StubbedDirectories ==
    call.op = "parse_directories" /\ call.pass = 0 /\ call.stub_missing

\* C4 (as claimed): after Pass 3 of parse_directories with stubbing enabled,
\* every import of every parsed contract has resolved = true or
\* stub_created = true, whatever module paths the other imports name.
C4_ResolvedOrStubbedAfterPass3 ==
    LET
        \* The parsed files that hold a contract.
        FilesOfContracts ==
            {parser.parsed_files[k].file :
                k \in {j \in DOMAIN parser.parsed_files : parser.parsed_files[j].contracts # <<>>}}
    IN
    StubbedDirectories =>
        \A f \in FilesOfContracts : \A k \in DOMAIN parser.imports[f] :
            parser.imports[f][k].resolved \/ parser.imports[f][k].stub_created

\* C5: in every state reachable by parse_file and parse_directories calls on
\* one CairoParser no import has both resolved = true and stub_created = true,
\* and an import just produced by the import extractor (the imports it yields
\* for the files not parsed so far) has both flags false.
C5_NeverResolvedAndStubbed ==
    /\ \A f \in DOMAIN parser.imports : \A k \in DOMAIN parser.imports[f] :
            ~(parser.imports[f][k].resolved /\ parser.imports[f][k].stub_created)
    /\ \A f \in DOMAIN disk \ DOMAIN parser.imports :
            \A k \in DOMAIN _extract_imports(disk[f]) :
                /\ ~_extract_imports(disk[f])[k].resolved
                /\ ~_extract_imports(disk[f])[k].stub_created

\* C5 witness: after a second call an import whose module path has a stub is
\* resolved and not stubbed, next to an import that is stubbed and not resolved.
C5_Witness ==
    /\ call.calls = 2 /\ call.pass = 0
    /\ \E f \in DOMAIN parser.imports : \E k \in DOMAIN parser.imports[f] :
            /\ parser.imports[f][k].resolved
            /\ ~parser.imports[f][k].stub_created
            /\ parser.imports[f][k].module_path \in DOMAIN parser.stub_registry
    /\ \E f \in DOMAIN parser.imports : \E k \in DOMAIN parser.imports[f] :
            /\ ~parser.imports[f][k].resolved
            /\ parser.imports[f][k].stub_created

\* C6 (as claimed): after parse_directories with stubbing enabled, for every
\* import of a parsed file that Pass 2 cannot resolve, the stub registry holds
\* under its module_path a contract of kind stub, named after the last segment
\* of the path, with one stub function for each symbol of that import.
C6_StubForEveryUnresolvedImport ==
    LET
        \* stub is the stub contract of imp.
        IsStubOf(stub, imp) ==
            LET
                \* function is the stub function of symbol.
                IsStubFunction(function, symbol) ==
                    /\ function.name = symbol
                    /\ function.is_stub
                    /\ function.visibility = "external"
                    /\ function.parameters = <<>>
                    /\ function.returns = <<>>
                    /\ function.decorators = <<"stub">>
            IN
            /\ stub.contract_type = "stub"
            /\ stub.name = Last(imp.module_path)
            /\ \A s \in DOMAIN imp.symbols :
                    Cardinality({n \in DOMAIN stub.functions :
                                    IsStubFunction(stub.functions[n], imp.symbols[s])}) = 1
    IN
    StubbedDirectories =>
        \A f \in DOMAIN parser.imports : \A k \in DOMAIN parser.imports[f] :
            ~parser.imports[f][k].resolved =>
                /\ parser.imports[f][k].module_path \in DOMAIN parser.stub_registry
                /\ IsStubOf(parser.stub_registry[parser.imports[f][k].module_path],
                            parser.imports[f][k])

\* The variables extract_variables_defined / extract_variables_used yield for
\* a statement.
DefinedIn(stmt) == Range(extract_variables_defined(stmt))

UsedIn(stmt) == Range(extract_variables_used(stmt))

\* The chain list has exactly one chain for var, and it lists exactly the
\* nodes of g whose statement defines (uses) var.
CoveredBy(chains, g, var) ==
    LET
        ChainsOf == {k \in DOMAIN chains : chains[k].variable = var}
    IN
    /\ Cardinality(ChainsOf) = 1
    /\ \A k \in ChainsOf :
         /\ Range(chains[k].definitions) =
              {n.id : n \in {m \in Range(g.nodes) :
                                HasStatement(m) /\ var \in DefinedIn(m.statement)}}
         /\ Range(chains[k].uses) =
              {n.id : n \in {m \in Range(g.nodes) :
                                HasStatement(m) /\ var \in UsedIn(m.statement)}}

\* C7 (as claimed): every variable defined or used by any statement of the
\* vector has exactly one def-use chain, which lists exactly the nodes that
\* define and use it.
C7_EveryStatementVariableCovered ==
    pc = "done" =>
        \A k \in DOMAIN statements :
            \A var \in DefinedIn(statements[k]) \cup UsedIn(statements[k]) :
                CoveredBy(dataflow.def_use_chains, cfg, var)

\* C7 (amended): every variable defined or used by the statement of a CFG node
\* has exactly one def-use chain, which lists exactly the nodes that define and
\* use it.
C7_EveryNodeVariableCovered ==
    (pc = "done" /\ Len(cfg.nodes) > 0) =>
        \A n \in Range(cfg.nodes) :
            HasStatement(n) =>
                \A var \in DefinedIn(n.statement) \cup UsedIn(n.statement) :
                    CoveredBy(dataflow.def_use_chains, cfg, var)

\* C7 witness: an analysed CFG in which a chain has a definition and a use,
\* built from a vector whose last statement follows a return and has no node.
C7_Witness ==
    /\ pc = "done"
    /\ \E k \in DOMAIN dataflow.def_use_chains :
         /\ dataflow.def_use_chains[k].definitions # <<>>
         /\ dataflow.def_use_chains[k].uses # <<>>
    /\ \E k \in DOMAIN statements :
         /\ statements[k].stmt_type = "let_binding"
         /\ NodeAtLine(cfg, statements[k].line) = 0

\* The sets satisfy the equations of compute_reaching_definitions at every node.
IsFixedPoint(g, st) ==
    \A n \in Range(g.nodes) :
        /\ st.reaching_in[n.id] = NewIn(n, st.reaching_out)
        /\ st.reaching_out[n.id] = NewOut(n, st.reaching_in[n.id])

\* No in or out set loses an element in this step of the analysis.
SetsGrow ==
    (pc = "rd" /\ pc' = "rd") =>
        \A id \in DOMAIN rd.reaching_in :
            /\ rd.reaching_in[id] \subseteq rd'.reaching_in[id]
            /\ rd.reaching_out[id] \subseteq rd'.reaching_out[id]

\* C8 (as claimed): in compute_reaching_definitions no in or out set ever loses
\* an element, and the while loop is left with changed = False, at a fixed point
\* of the equations, before the cap of 100 iterations is reached.
C8_StopsAtFixedPoint ==
    [][/\ SetsGrow
       /\ (pc = "rd" /\ pc' = "rd_done") =>
            /\ ~rd.changed
            /\ IsFixedPoint(cfg, rd)]_vars

\* C8 (amended): no in or out set ever loses an element, the while loop runs at
\* most 100 iterations, and when it is left with changed = False the sets are a
\* fixed point of the equations.
C8_GrowsAndStopsWithinCap ==
    [][/\ SetsGrow
       /\ rd'.iterations <= max_iterations
       /\ (pc = "rd" /\ pc' = "rd_done" /\ ~rd.changed) => IsFixedPoint(cfg, rd)]_vars

\* C8 witness: the loop was left after three or more iterations with
\* changed = False and a definition reaching the exit node.
C8_Witness ==
    /\ pc = "rd_done"
    /\ ~rd.changed
    /\ rd.iterations >= 3
    /\ \E id \in Range(cfg.exit_node_ids) : rd.reaching_in[id] # {}

\* C9 (as claimed): for IfElseBody the CFG has a branch node whose two
\* successors are the two let-a nodes, each let-a node leads to the one merge
\* node, the merge node to the return node and that to the exit; the else
\* header has no node; find_all_paths returns exactly two paths.
C9_IfElseScenario ==
    (pc = "done" /\ body = IfElseBody) =>
        LET g       == cfg
            let1    == NodeAtLine(g, 2)
            let2    == NodeAtLine(g, 4)
            ret     == NodeAtLine(g, 6)
            merges  == {id \in NodeIds(g) : NodeOf(g, id).node_type = "merge"}
        IN /\ \E br \in NodeIds(g) :
                /\ NodeOf(g, br).node_type = "branch"
                /\ SuccessorsOf(g, br) = {let1, let2}
                /\ Len(NodeOf(g, br).successors) = 2
           /\ Cardinality(merges) = 1
           /\ \A m \in merges :
                /\ SuccessorsOf(g, let1) = {m}
                /\ SuccessorsOf(g, let2) = {m}
                /\ SuccessorsOf(g, m) = {ret}
           /\ SuccessorsOf(g, ret) = Range(g.exit_node_ids)
           /\ \A n \in Range(g.nodes) : n.statement.stmt_type # "else"
           /\ Len(find_all_paths(g, DefaultMaxPaths)) = 2

\* C10 (as claimed): for StorageBody the storage inventory has exactly one read
\* record and one write record for counter, and the def-use chain of v has the
\* node of the read line as its definition and the node of the write line as
\* its use.
C10_StorageScenario ==
    (pc = "done" /\ body = StorageBody) =>
        LET acc == dataflow.storage_accesses
            ch  == dataflow.def_use_chains
        IN /\ Cardinality({k \in DOMAIN acc : acc[k].access_type = "read"
                                              /\ acc[k].storage_var = "counter"}) = 1
           /\ Cardinality({k \in DOMAIN acc : acc[k].access_type = "write"
                                              /\ acc[k].storage_var = "counter"}) = 1
           /\ Len(acc) = 2
           /\ \E k \in DOMAIN ch :
                /\ ch[k].variable = "v"
                /\ ch[k].definitions = <<NodeAtLine(cfg, 1)>>
                /\ ch[k].uses = <<NodeAtLine(cfg, 2)>>

\* analyze_function has returned its record.
Analyzed == pc = "done" /\ func_result # NoResult

\* C11: for every function whose body text is present, the record that
\* analyze_function returns has has_body = true and carries a CFG and a dataflow
\* serialization; when the body yields no statements the CFG is the two-node
\* graph entry (id 0) -> exit (id 1).
C11_BodyGivesCFGAndDataflow ==
    (Analyzed /\ func_result.has_body) =>
        /\ func_result.cfg # Absent
        /\ func_result.dataflow # Absent
        /\ statements = <<>> =>
              /\ Len(func_result.cfg[1].nodes) = 2
              /\ func_result.cfg[1].entry_node_id = 0
              /\ func_result.cfg[1].exit_node_ids = <<1>>
              /\ SuccessorsOf(func_result.cfg[1], 0) = {1}

\* C12: every warning of a function analysis record carries a type tag from
\* {no_body, no_statements, uninitialized, unused_def} and a message; the
\* warnings about a use without definition (those that name a node) are tagged
\* uninitialized, and those about an unused definition (those that name
\* definition nodes) are tagged unused_def.
C12_WarningsTagged ==
    Analyzed =>
        \A k \in DOMAIN func_result.warnings :
            LET Tagged(warning) ==
                    /\ {"type", "message"} \subseteq DOMAIN warning
                    /\ warning.type \in {"no_body", "no_statements", "uninitialized", "unused_def"}
                    /\ "node_id" \in DOMAIN warning => warning.type = "uninitialized"
                    /\ "definition_nodes" \in DOMAIN warning => warning.type = "unused_def"
            IN Tagged(func_result.warnings[k])

\* C13: for a fixed set of input files the result of parse_directories (the
\* resolved and stub_created flags of every import, the stub registry and the
\* returned contract map) is the same for every order in which Pass 1 visits
\* the files.
C13_SameResultInEveryOrder ==
    LET
        Outcome(r) == <<r.parser.imports, r.parser.stub_registry, r.all_contracts>>

        SameSet(order, files) ==
            /\ Len(order) = Len(files)
            /\ \A k \in DOMAIN files : \E j \in DOMAIN order : order[j] = files[k]
    IN
    (call.pass = 1) =>
        \A order \in {o \in [DOMAIN call.files -> Range(call.files)] : SameSet(o, call.files)} :
            Outcome(parse_directories(parser, disk, order, call.stub_missing))
                = Outcome(parse_directories(parser, disk, call.files, call.stub_missing))

\* C14: a function whose declaration has no body of its own (its line ends in
\* `;`) is stored with body_text, body_start_line and body_end_line absent,
\* whatever follows the declaration in the file, and its analysis record has
\* has_body = false, the no_body warning as its only warning, and no CFG.
C14_NoBodyOfItsOwn ==
    LET
        StoredWithoutBody(function) ==
            /\ function.body_text = Absent
            /\ function.body_start_line = None
            /\ function.body_end_line = None

        SkippedWithNoBody(result) ==
            /\ ~result.has_body
            /\ Len(result.warnings) = 1
            /\ result.warnings[1].type = "no_body"
            /\ result.cfg = Absent
    IN
    \A j \in DOMAIN contract.functions :
        Last(contract.source[contract.functions[j].line]) = ";" =>
            /\ StoredWithoutBody(contract.functions[j])
            /\ j \in DOMAIN contract.results => SkippedWithNoBody(contract.results[j])

\* The warnings of find_uninitialized_variables against the sets reaching_in of
\* st: v is warned of at node n exactly when n's statement uses v and no pair
\* (v, d) is in reaching_in[n], and every use of a variable that no node defines
\* is warned of.  With by_paths, also against the paths of g: no pair (v, d) is
\* in reaching_in[n] exactly when no node that defines v has a path to n on
\* which no other node defines v.
WarningsAsReaching(g, st, warnings, by_paths) ==
    LET
        Uses(node, v) == HasStatement(node) /\ v \in Range(extract_variables_used(node.statement))

        Defines(node, v) ==
            HasStatement(node) /\ v \in Range(extract_variables_defined(node.statement))

        Names ==
            UNION {Range(extract_variables_used(g.nodes[k].statement))
                     \cup Range(extract_variables_defined(g.nodes[k].statement)) :
                   k \in DOMAIN g.nodes}

        Warned(node, v) ==
            \E k \in DOMAIN warnings :
                /\ "node_id" \in DOMAIN warnings[k]
                /\ warnings[k].node_id = node.id
                /\ warnings[k].variable = v

        NothingReaches(node, v) == \A d \in st.reaching_in[node.id] : d[1] # v

        \* The nodes that a path from a node of S leads to, none of S and none
        \* on the way to them defining v.
        RECURSIVE Clear(_, _)
        Clear(S, v) ==
            LET T == S \cup UNION {SuccessorsOf(g, id) : id \in {m \in S : ~Defines(NodeOf(g, m), v)}}
            IN IF T = S THEN S ELSE Clear(T, v)

        Reached(node, v) ==
            \E d \in NodeIds(g) :
                /\ Defines(NodeOf(g, d), v)
                /\ node.id \in Clear(SuccessorsOf(g, d), v)
    IN
    \A k \in DOMAIN g.nodes : \A v \in Names :
        /\ Warned(g.nodes[k], v) <=> (Uses(g.nodes[k], v) /\ NothingReaches(g.nodes[k], v))
        /\ (Uses(g.nodes[k], v) /\ \A j \in DOMAIN g.nodes : ~Defines(g.nodes[j], v))
              => Warned(g.nodes[k], v)
        /\ by_paths => (NothingReaches(g.nodes[k], v) <=> ~Reached(g.nodes[k], v))

\* C15 (as claimed): find_uninitialized_variables warns of v at n exactly when
\* n's statement uses v and no pair (v, d) is in in[n] of the fixed point of the
\* reaching-definitions equations, that is, exactly when no node defining v has
\* a path to n along which v is not redefined; every use of a variable the body
\* does not define is warned of.
C15_WarnsPerFixedPoint ==
    LET
        \* The fixed point that the iteration arrives at when it is continued.
        RECURSIVE FixedPoint(_)
        FixedPoint(st) ==
            IF IsFixedPoint(cfg, st) THEN st
            ELSE FixedPoint(ForNodes(cfg, st, 1, Len(cfg.nodes)))
    IN
    (pc = "warned") =>
        /\ WarningsAsReaching(cfg, FixedPoint(rd), func_result.warnings, FALSE)
        /\ WarningsAsReaching(cfg, rd, func_result.warnings, TRUE)

\* C15 (amended): the warnings are exactly the uses that no pair of in[n], as
\* compute_reaching_definitions returns it, has a definition for; when the
\* while loop ended with changed = False this is the fixed point and agrees
\* with the paths of the CFG; every use of a variable the body does not define
\* is warned of.
C15_WarnsPerReturnedSets ==
    (pc = "warned") =>
        /\ ~rd.changed => IsFixedPoint(cfg, rd)
        /\ WarningsAsReaching(cfg, rd, func_result.warnings, ~rd.changed)

\* C15 witness: at a fixed point warnings were given, and a return has no
\* warning because a definition of the variable it uses reaches it.
C15_Witness ==
    /\ pc = "warned"
    /\ ~rd.changed
    /\ func_result.warnings # <<>>
    /\ \E k \in DOMAIN cfg.nodes :
         /\ cfg.nodes[k].statement.stmt_type = "return"
         /\ \E d \in rd.reaching_in[cfg.nodes[k].id] :
                d[1] \in Range(extract_variables_used(cfg.nodes[k].statement))

\* C16: when a step of analyze_function raises for one function, analyze_contract
\* still gives one record per function in source order; the record of the failing
\* function holds exactly one error string, and the record of every other
\* function is the one an analysis without any failure gives, although all
\* functions share one CFGBuilder.
C16_FailureStaysInItsRecord ==
    LET
        Failed(result) == result.errors # <<>>

        AsWithoutFailure(result, function) ==
            result = analyze_function(NewBuilder, function).result
    IN
    /\ Len(contract.results) <= Len(contract.functions)
    /\ (pc = "loop" /\ contract.k > Len(contract.functions)) =>
            Len(contract.results) = Len(contract.functions)
    /\ \A j \in DOMAIN contract.results :
            /\ contract.results[j].function_name = contract.functions[j].name
            /\ Failed(contract.results[j]) => Len(contract.results[j].errors) = 1
            /\ ~Failed(contract.results[j]) =>
                    AsWithoutFailure(contract.results[j], contract.functions[j])

\* C16 witness: analyze_contract is through with a contract whose first function
\* failed after nodes were made and whose second function got a CFG.
C16_Witness ==
    /\ pc = "loop"
    /\ contract.k > Len(contract.functions)
    /\ Len(contract.results) >= 2
    /\ contract.results[1].errors # <<>>
    /\ contract.results[1].cfg # Absent
    /\ contract.results[2].errors = <<>>
    /\ contract.results[2].cfg # Absent

\* C17: whatever builds the one CFGBuilder has done before, the CFG a call of build
\* returns has entry id 0 and the single exit id 1, every node's id is its position
\* in the node list (0..n-1 in creation order), the entry has no predecessor and
\* the exit has no successor.
C17_EntryExitAndDenseIds ==
    LET
        WellNumbered(g) ==
            /\ g.entry_node_id = 0
            /\ g.exit_node_ids = <<1>>
            /\ \A p \in DOMAIN g.nodes : g.nodes[p].id = p - 1
            /\ Len(g.nodes) >= 2
            /\ g.nodes[1].node_type = "entry"
            /\ g.nodes[1].predecessors = <<>>
            /\ g.nodes[2].node_type = "exit"
            /\ g.nodes[2].successors = <<>>
    IN
    /\ pc = "built" => WellNumbered(cfg)
    /\ \A j \in DOMAIN contract.results :
            contract.results[j].cfg # Absent => WellNumbered(contract.results[j].cfg[1])

\* C17 witness: build has returned for the second function of a contract, a
\* branching CFG with a return, after the builder made a branching CFG for the first.
C17_Witness ==
    /\ pc = "built"
    /\ contract.k = 2
    /\ contract.results[1].cfg # Absent
    /\ \E p \in DOMAIN contract.results[1].cfg[1].nodes :
            contract.results[1].cfg[1].nodes[p].node_type = "merge"
    /\ cfg # contract.results[1].cfg[1]
    /\ \E p \in DOMAIN cfg.nodes :
            /\ cfg.nodes[p].node_type = "branch"
            /\ Len(cfg.nodes[p].predecessors) = 1
    /\ Len(cfg.nodes[2].predecessors) >= 1

\* C18: the external-call inventory of an analysed function holds one record for
\* every CFG node whose statement is a call and no other record, in the order of
\* the nodes, each with the is_external flag of its statement; a call statement
\* parsed from a body is flagged exactly when its line contains 'dispatcher' in
\* any case or '::'; the body of the one dispatcher call line gives one record,
\* flagged external.
C18_ExternalCallInventory ==
    LET
        IsCall(node) == node.statement.stmt_type = "call"

        \* The positions in g.nodes of the nodes the records name, record by record.
        Positions(g, calls) == [k \in DOMAIN calls |-> get_node(g, calls[k].node_id)]

        OnePerCallNode(g, calls, at) ==
            /\ \A k \in DOMAIN calls :
                    /\ at[k] \in DOMAIN g.nodes
                    /\ IsCall(g.nodes[at[k]])
                    /\ calls[k].is_external = g.nodes[at[k]].statement.is_external
                    /\ k > 1 => at[k - 1] < at[k]
            /\ \A p \in DOMAIN g.nodes :
                    IsCall(g.nodes[p]) => \E k \in DOMAIN calls : at[k] = p

        Marked(line) ==
            \E k \in DOMAIN line : line[k] \in {"IErc20Dispatcher", "dispatcher", "::"}

        FlaggedByText(g) ==
            \A p \in DOMAIN g.nodes :
                IsCall(g.nodes[p]) =>
                    g.nodes[p].statement.is_external = Marked(body[g.nodes[p].statement.line])

        Inventory(g, calls) ==
            /\ OnePerCallNode(g, calls, Positions(g, calls))
            /\ body # <<>> => FlaggedByText(g)
            /\ body = <<DispatcherLine>> =>
                    /\ Len(calls) = 1
                    /\ calls[1].is_external
                    /\ calls[1].function_name = "transfer"
    IN
    (pc = "done" /\ func_result.dataflow # Absent) =>
        Inventory(func_result.cfg[1], func_result.dataflow[1].external_calls)

\* C18 witness: an analysed body of three lines with a call for each of them, the
\* dispatcher call flagged and another call not flagged.
C18_Witness ==
    /\ pc = "done"
    /\ func_result.dataflow # Absent
    /\ Len(body) = 3
    /\ body[1] = DispatcherLine
    /\ Len(func_result.dataflow[1].external_calls) = 3
    /\ func_result.dataflow[1].external_calls[1].is_external
    /\ \E k \in 2..3 : ~func_result.dataflow[1].external_calls[k].is_external

\* C19: find_all_paths(max_paths) returns at most max_paths paths; each of them
\* starts at the entry node, ends at an exit node, goes along a successor edge at
\* every step and has no node twice; when the CFG has fewer than max_paths paths
\* from the entry to an exit, every one of them is returned exactly once.
C19_PathsWithinCap ==
    LET
        Successors(g, id) ==
            IF get_node(g, id) = 0 THEN {}
            ELSE {g.nodes[get_node(g, id)].successors[k] :
                    k \in DOMAIN g.nodes[get_node(g, id)].successors}

        IsPath(g, path) ==
            /\ path # <<>>
            /\ path[1] = g.entry_node_id
            /\ Contains(g.exit_node_ids, path[Len(path)])
            /\ \A k \in 1..(Len(path) - 1) : path[k + 1] \in Successors(g, path[k])
            /\ \A j, k \in DOMAIN path : j # k => path[j] # path[k]

        \* The paths from id to an exit that avoid the nodes in visited.
        RECURSIVE PathsFrom(_, _, _)
        PathsFrom(g, id, visited) ==
            IF Contains(g.exit_node_ids, id) THEN {<<id>>}
            ELSE UNION {{<<id>> \o rest : rest \in PathsFrom(g, next, visited \cup {id})} :
                            next \in Successors(g, id) \ (visited \cup {id})}

        EachOnce(found, all) ==
            /\ Len(found) = Cardinality(all)
            /\ \A path \in all : Cardinality({k \in DOMAIN found : found[k] = path}) = 1

        Returned(g, max_paths, found, all) ==
            /\ Len(found) <= max_paths
            /\ \A k \in DOMAIN found : IsPath(g, found[k])
            /\ Cardinality(all) < max_paths => EachOnce(found, all)
    IN
    pc = "paths" =>
        Returned(cfg, paths.max_paths, paths.found, PathsFrom(cfg, cfg.entry_node_id, {}))

\* C19 witness: find_all_paths has returned the two paths of a CFG whose branch
\* has both successors, with max_paths above their number.
C19_Witness ==
    /\ pc = "paths"
    /\ paths.max_paths = MaxPaths
    /\ Len(paths.found) = 2
    /\ paths.found[1] # paths.found[2]

\* C20: a file whose reading raises in Pass 1 of parse_directories adds no key to
\* the symbol table and no entry to the cache of parsed files, and the other
\* files of the input set go through the three passes as they do without it:
\* they are in the cache, and the parser and the returned contracts are those of
\* the call on the input set without the failing file. A call whose input names
\* a directory that does not exist, or a path that is not a directory, is over
\* before Pass 1, with the symbol table, the stub registry, the resolved imports
\* and the cache as they were.
C20_FailingFileLeavesNoTrace ==
    [][LET
        Readable(files) == SelectSeq(files, LAMBDA f : disk[f].readable)

        FilesOfKeys(P) == {P.symbol_registry[key].file_path : key \in DOMAIN P.symbol_registry}

        Registered(P, files) ==
            \A k \in DOMAIN files :
                IF disk[files[k]].readable THEN Cached(P, files[k])
                ELSE ~Cached(P, files[k]) /\ files[k] \notin FilesOfKeys(P)

        AsWithout(files, with, without) ==
            /\ with = without
            /\ Registered(with.parser, files)

        \* Pass 1 has files left: what the call gives from here on.
        Isolated ==
            (call.pass = 1) =>
                AsWithout(call.files,
                          parse_directories(parser, disk, call.files, call.stub_missing),
                          parse_directories(parser, disk, Readable(call.files),
                                            call.stub_missing))

        \* Pass 1 reaches a file that cannot be read.
        Skipped ==
            (call.pass = 1 /\ call.files # <<>> /\ ~disk[Head(call.files)].readable
                           /\ call'.files = Tail(call.files))
                => parser' = parser

        \* parse_directories raises on its input.
        Refused ==
            (call'.op = "raised" /\ call'.calls = call.calls + 1)
                => /\ call'.pass = 0
                   /\ parser'.symbol_registry = parser.symbol_registry
                   /\ parser'.stub_registry = parser.stub_registry
                   /\ parser'.resolved_imports = parser.resolved_imports
                   /\ parser'.parsed_files = parser.parsed_files
      IN
      Isolated /\ Skipped /\ Refused]_vars

\* C20 witness: parse_directories has returned for the directory p, whose file c
\* cannot be read: a is in the cache, c is not, and the import of crate::c in a
\* has its stub from Pass 3.
C20_Witness ==
    /\ call.op = "parse_directories"
    /\ call.pass = 0
    /\ ~disk[<<"p", "src", "c">>].readable
    /\ Cached(parser, <<"p", "src", "a">>)
    /\ ~Cached(parser, <<"p", "src", "c">>)
    /\ <<"crate", "c">> \in DOMAIN parser.stub_registry

\* C21: in the statements parse gives for a body, every if, else and match
\* header has the depth of the block its line lies in, counted after the closing
\* braces the line begins with, so that an else header has the depth of its if;
\* and every other statement lying directly in the block of an if or an else
\* header has that depth plus one.
C21_HeadersAtOuterDepth ==
    LET
        RECURSIVE DepthBefore(_)
        DepthBefore(n) ==
            IF n = 1 THEN 0
            ELSE DepthBefore(n - 1) + Count(body[n - 1], "{") - Count(body[n - 1], "}")

        \* The depth of the block line n lies in.
        Nesting(n) ==
            DepthBefore(n) - (IF body[n] # <<>> /\ body[n][1] = "}" THEN 1 ELSE 0)

        IsHeader(stmt) == stmt.stmt_type \in {"if", "else", "match"}

        \* The line that opens the block line n lies in.
        Last_(S) == IF S = {} THEN 0 ELSE CHOOSE j \in S : \A m \in S : m <= j

        Opener(n) == Last_({j \in 1..(n - 1) : Nesting(j) < Nesting(n)})

        InIfOrElse(stmt) ==
            /\ Nesting(stmt.line) > 0
            /\ \E j \in DOMAIN statements :
                    /\ statements[j].line = Opener(stmt.line)
                    /\ statements[j].stmt_type \in {"if", "else"}

        AtItsDepth(stmt) ==
            (IsHeader(stmt) \/ InIfOrElse(stmt)) => stmt.block_depth = Nesting(stmt.line)
    IN
    (pc = "build" /\ body # <<>>) =>
        \A k \in DOMAIN statements : AtItsDepth(statements[k])

\* C22: for a statement vector that begins with an if at depth d, a run of
\* statements deeper than d without if or match, an else header at depth d and a
\* second such run, build makes the branch node and the merge node, one chain of
\* nodes for each run up to its first return, both chains starting at the branch;
\* a chain goes to the merge unless it ends in a return, which goes to the exit;
\* the else header has no node; and the branch has the merge as a direct
\* successor exactly when one of the runs is empty.
C22_IfElseWiring ==
    LET
        Depth == statements[1].block_depth

        ThenStop == BlockEnd(statements, 2, Depth)

        ElseStop == BlockEnd(statements, ThenStop + 1, Depth)

        Plain(run) == \A k \in DOMAIN run : run[k].stmt_type \notin {"if", "match"}

        Shaped ==
            /\ Len(statements) >= 2
            /\ statements[1].stmt_type = "if"
            /\ ThenStop <= Len(statements)
            /\ statements[ThenStop].stmt_type = "else"
            /\ statements[ThenStop].block_depth = Depth
            /\ Plain(Slice(statements, 2, ThenStop - 1))
            /\ Plain(Slice(statements, ThenStop + 1, ElseStop - 1))

        \* A run up to its first return.
        Kept(run) ==
            Slice(run, 1, Leftmost({k \in DOMAIN run : run[k].stmt_type = "return"}
                                   \cup {Len(run)}))

        \* The nodes first..first + Len(run) - 1 are the chain of run.
        IsChain(g, run, first) ==
            \A k \in DOMAIN run :
                /\ NodeOf(g, first + k - 1).statement = run[k]
                /\ NodeOf(g, first + k - 1).successors =
                        (IF run[k].stmt_type = "return" THEN <<1>>
                         ELSE IF k = Len(run) THEN <<3>>
                         ELSE <<first + k>>)

        Start(run, first) == IF run = <<>> THEN 3 ELSE first

        Wired(g, then_run, else_run, else_header) ==
            /\ NodeOf(g, 2).node_type = "branch"
            /\ NodeOf(g, 2).statement = statements[1]
            /\ NodeOf(g, 3).node_type = "merge"
            /\ \A id \in 4..(3 + Len(then_run) + Len(else_run)) :
                    NodeOf(g, id).node_type = "statement"
            /\ IsChain(g, then_run, 4)
            /\ IsChain(g, else_run, 4 + Len(then_run))
            /\ Range(NodeOf(g, 2).successors) =
                    {Start(then_run, 4), Start(else_run, 4 + Len(then_run))}
            /\ Len(NodeOf(g, 2).successors) =
                    Cardinality({Start(then_run, 4), Start(else_run, 4 + Len(then_run))})
            /\ \A k \in DOMAIN g.nodes : g.nodes[k].statement # else_header
    IN
    (pc = "built" /\ body = <<>> /\ Shaped) =>
        Wired(cfg, Kept(Slice(statements, 2, ThenStop - 1)),
              Kept(Slice(statements, ThenStop + 1, ElseStop - 1)), statements[ThenStop])

\* C22 witness: build has returned for an if whose then-run ends in a return and
\* whose else-run of one statement goes on to the merge node.
C22_Witness ==
    /\ pc = "built"
    /\ body = <<>>
    /\ Len(statements) >= 5
    /\ statements[1].stmt_type = "if"
    /\ statements[3].stmt_type = "return"
    /\ statements[4].stmt_type = "else"
    /\ statements[4].block_depth = statements[1].block_depth
    /\ statements[5].block_depth > statements[1].block_depth
    /\ NodeOf(cfg, 2).successors = <<4, 6>>
    /\ NodeOf(cfg, 5).successors = <<1>>
    /\ NodeOf(cfg, 6).successors = <<3>>

\* C23: in a CFG build has returned, the node of a return statement has the exit
\* node as its only successor, and no statement that follows the return in its
\* block (the statement list, the then-run or the else-run of an if, or the body
\* of a match, whichever is innermost) has a node.
C23_ReturnEndsItsBlock ==
    LET
        Depth(h) == statements[h].block_depth

        HasElse(h) ==
            /\ BlockEnd(statements, h + 1, Depth(h)) <= Len(statements)
            /\ statements[BlockEnd(statements, h + 1, Depth(h))].stmt_type = "else"
            /\ statements[BlockEnd(statements, h + 1, Depth(h))].block_depth = Depth(h)

        \* The blocks of the vector, as <<first, last>>.
        Blocks ==
            {<<1, Len(statements)>>}
            \cup {<<h + 1, BlockEnd(statements, h + 1, Depth(h)) - 1>> :
                    h \in {k \in DOMAIN statements : statements[k].stmt_type \in {"if", "match"}}}
            \cup {<<BlockEnd(statements, h + 1, Depth(h)) + 1,
                    BlockEnd(statements, BlockEnd(statements, h + 1, Depth(h)) + 1, Depth(h)) - 1>> :
                    h \in {k \in DOMAIN statements : statements[k].stmt_type = "if" /\ HasElse(k)}}

        Around(k) == {block \in Blocks : block[1] <= k /\ k <= block[2]}

        Innermost(around) == CHOOSE block \in around : \A other \in around : other[1] <= block[1]

        NodesOf(g, stmt) == {p \in DOMAIN g.nodes : g.nodes[p].statement = stmt}

        Ends(g, k, last) ==
            /\ \A p \in NodesOf(g, statements[k]) : g.nodes[p].successors = g.exit_node_ids
            /\ \A j \in (k + 1)..last : NodesOf(g, statements[j]) = {}
    IN
    pc = "built" =>
        \A k \in DOMAIN statements :
            (statements[k].stmt_type = "return" /\ NodesOf(cfg, statements[k]) # {}) =>
                Ends(cfg, k, Innermost(Around(k))[2])

\* C23 witness: build has returned for a vector with a return in the then-run of
\* an if, a statement behind it in the same run without a node, and a statement
\* after the if with a node.
C23_Witness ==
    /\ pc = "built"
    /\ Len(statements) >= 5
    /\ statements[1].stmt_type = "if"
    /\ statements[2].stmt_type = "return"
    /\ statements[3].stmt_type = "let_binding"
    /\ statements[3].block_depth > statements[1].block_depth
    /\ \E p \in DOMAIN cfg.nodes : cfg.nodes[p].statement = statements[2]
    /\ \A p \in DOMAIN cfg.nodes : cfg.nodes[p].statement # statements[3]
    /\ \E p \in DOMAIN cfg.nodes : cfg.nodes[p].statement = statements[Len(statements)]

\* C24: in parse_directories, Pass 2 leaves the symbol table, the stub registry
\* and the parsed-file cache as they were, and Pass 3 leaves the symbol table,
\* the resolved-imports map, the cache and every import's resolved flag as they
\* were: it only adds entries to the stub registry and sets stub_created flags.
C24_PassesKeepTheirFrame ==
    [][LET
           Pass2 == call.op = "parse_directories" /\ call.pass = 1 /\ call'.pass = 2
           Pass3 == call.op = "parse_directories" /\ call.pass = 2 /\ call'.pass = 0
           SameImports == DOMAIN parser'.imports = DOMAIN parser.imports
                          /\ \A f \in DOMAIN parser.imports :
                                DOMAIN parser'.imports[f] = DOMAIN parser.imports[f]
           \* The import differs at most in stub_created, which is only set.
           OnlyStubFlagSet(old, new) ==
               /\ [new EXCEPT !.stub_created = old.stub_created] = old
               /\ old.stub_created => new.stub_created
       IN
       /\ Pass2 =>
            /\ parser'.symbol_registry = parser.symbol_registry
            /\ parser'.stub_registry = parser.stub_registry
            /\ parser'.parsed_files = parser.parsed_files
       /\ Pass3 =>
            /\ parser'.symbol_registry = parser.symbol_registry
            /\ parser'.resolved_imports = parser.resolved_imports
            /\ parser'.parsed_files = parser.parsed_files
            /\ DOMAIN parser.stub_registry \subseteq DOMAIN parser'.stub_registry
            /\ \A m \in DOMAIN parser.stub_registry :
                    parser'.stub_registry[m] = parser.stub_registry[m]
            /\ SameImports
            /\ \A f \in DOMAIN parser.imports : \A k \in DOMAIN parser.imports[f] :
                    OnlyStubFlagSet(parser.imports[f][k], parser'.imports[f][k])]_vars

\* Both passes of one parse_directories call have written: Pass 2 resolved an
\* import and Pass 3 stubbed another.
C24_Witness ==
    /\ call.op = "parse_directories" /\ call.pass = 0 /\ call.calls = 1
    /\ call.stub_missing
    /\ parser.resolved_imports # <<>>
    /\ parser.stub_registry # <<>>
    /\ \E f \in DOMAIN parser.imports : \E k \in DOMAIN parser.imports[f] :
            parser.imports[f][k].resolved
    /\ \E f \in DOMAIN parser.imports : \E k \in DOMAIN parser.imports[f] :
            parser.imports[f][k].stub_created

\* C25: every import marked resolved, by Pass 2 of parse_directories or by
\* parse_file, has its module_path among the keys of the resolved-imports map,
\* the keys get_stub_report counts in total_resolved and lists in
\* resolved_modules.
C25_ResolvedImportsAreReported ==
    \A f \in DOMAIN parser.imports : \A k \in DOMAIN parser.imports[f] :
        parser.imports[f][k].resolved
            => parser.imports[f][k].module_path \in DOMAIN parser.resolved_imports

\* C26: parse_file ends on every set of files, files that import each other
\* included, and reads and extracts a file at most once for a CairoParser: the
\* cache holds one entry for a file, and a request for a file of the cache
\* returns with the symbol table, the registries, the cache and the imports as
\* they were.
C26_ParsedOnce ==
    LET
        \* The files the cache of P has entries of.
        Keys(P) == {P.parsed_files[k].file : k \in DOMAIN P.parsed_files}
        OncePerFile(P) ==
            /\ Cardinality(Keys(P)) = Len(P.parsed_files)
            /\ Keys(P) \subseteq DOMAIN disk
        After(file_path, stub_missing) == parse_file(parser, disk, file_path, stub_missing)
    IN
    /\ OncePerFile(parser)
    /\ \A file_path \in DOMAIN disk, stub_missing \in BOOLEAN :
        /\ OncePerFile(After(file_path, stub_missing))
        /\ disk[file_path].readable => Cached(After(file_path, stub_missing), file_path)
        /\ Cached(parser, file_path) => After(file_path, stub_missing) = parser

\* One parse_file call has gone round a cycle: a.cairo imports c.cairo, c.cairo
\* imports a.cairo, and both imports are resolved to their files.
C26_Witness ==
    /\ call.op = "parse_file" /\ call.calls = 1 /\ call.stub_missing
    /\ Len(parser.parsed_files) = 2
    /\ <<"crate", "c">> \in DOMAIN parser.resolved_imports
    /\ <<"crate", "a">> \in DOMAIN parser.resolved_imports
    /\ parser.resolved_imports[<<"crate", "c">>] = <<"p", "src", "c">>
    /\ parser.resolved_imports[<<"crate", "a">>] = <<"p", "src", "a">>
    /\ \A file_path \in {<<"p", "src", "a">>, <<"p", "src", "c">>} :
            /\ Cached(parser, file_path)
            /\ parse_file(parser, disk, file_path, TRUE) = parser

\* C27: the map parse_directories returns holds every contract extracted from
\* every parsed file; contracts of one name from different files are both in it.
C27_EveryContractReturned ==
    LET
        Returned == parse_directories(parser, disk, call.files, call.stub_missing)
        In(all_contracts, extracted) ==
            \E name \in DOMAIN all_contracts :
                /\ all_contracts[name].name = extracted.name
                /\ all_contracts[name].file_path = extracted.file_path
    IN
    (call.op = "parse_directories" /\ call.pass = 1) =>
        \A k \in DOMAIN Returned.parser.parsed_files :
            \A j \in DOMAIN Returned.parser.parsed_files[k].contracts :
                In(Returned.all_contracts, Returned.parser.parsed_files[k].contracts[j])

\* C28: in the CFG built for a parsed body, the statement that follows the
\* closing brace of an if or a match at the nesting level of the construct has
\* its node among the successors of the construct's merge node and is not part
\* of the then-block or the body, braces on the statement's own line or not.
C28_FollowerLeavesTheBlock ==
    LET
        RECURSIVE DepthBefore(_)
        DepthBefore(n) ==
            IF n = 1 THEN 0
            ELSE DepthBefore(n - 1) + Count(body[n - 1], "{") - Count(body[n - 1], "}")

        \* The depth of the block line n lies in.
        Nesting(n) ==
            DepthBefore(n) - (IF body[n] # <<>> /\ body[n][1] = "}" THEN 1 ELSE 0)

        First(S) == CHOOSE j \in S : \A m \in S : j <= m

        \* The lines after the header on which its construct is closed.
        Closing(header) ==
            {n \in (header + 1)..Len(body) : DepthBefore(n + 1) = Nesting(header)}

        \* The statements behind the closing brace of the construct of statement h.
        Behind(h) ==
            IF Closing(statements[h].line) = {} THEN {}
            ELSE {k \in DOMAIN statements : statements[k].line > First(Closing(statements[h].line))}

        Follows(h, k) ==
            /\ Behind(h) # {}
            /\ k = First(Behind(h))
            /\ Nesting(statements[k].line) = Nesting(statements[h].line)

        NodesOf(g, stmt) == {p \in DOMAIN g.nodes : g.nodes[p].statement = stmt}

        \* The merge node is made right after the branch node.
        AfterMerge(g, h, k) ==
            \A b \in NodesOf(g, statements[h]) : \A p \in NodesOf(g, statements[k]) :
                g.nodes[p].id \in Range(NodeOf(g, g.nodes[b].id + 1).successors)

        InBlock(h, k) == k < BlockEnd(statements, h + 1, statements[h].block_depth)
    IN
    (pc = "built" /\ body # <<>>) =>
        \A h \in DOMAIN statements : \A k \in DOMAIN statements :
            (statements[h].stmt_type \in {"if", "match"} /\ Follows(h, k)) =>
                /\ ~InBlock(h, k)
                /\ AfterMerge(cfg, h, k)

\* C29: the statements analysed for a function of an extracted contract are
\* statements of its body: none lies on the line of the declaration
\* (`fn name(params) {`), and so the declaration has no CFG node and no
\* external-call record.
C29_HeaderYieldsNoStatement ==
    LET
        Declared == contract.functions[contract.k].line
        OnHeader(stmt) == stmt.line = Declared
    IN
    (pc \in {"build", "seq", "built", "done"} /\ contract.k <= Len(contract.functions)) =>
        /\ \A k \in DOMAIN statements : ~OnHeader(statements[k])
        /\ \A p \in DOMAIN cfg.nodes : ~(cfg.nodes[p].statement # NoStatement /\ OnHeader(cfg.nodes[p].statement))
        /\ func_result.dataflow # Absent =>
                \A k \in DOMAIN func_result.dataflow[1].external_calls :
                    func_result.dataflow[1].external_calls[k].line # Declared

\* C30: a CFG build has returned is acyclic, no node reaches itself along
\* successor edges, and none of its nodes has the type loop_header.
C30_Acyclic ==
    Built =>
        \A p \in DOMAIN cfg.nodes :
            /\ cfg.nodes[p].node_type # "loop_header"
            /\ cfg.nodes[p].id \notin ReachableFrom(cfg, SuccessorsOf(cfg, cfg.nodes[p].id))

\* C30 witness: build has returned a CFG in which two paths from a branch node
\* meet again in its merge node, and the merge node leads on to a statement.
C30_Witness ==
    /\ Built
    /\ \E b \in DOMAIN cfg.nodes : \E m \in DOMAIN cfg.nodes :
        /\ cfg.nodes[b].node_type = "branch"
        /\ cfg.nodes[m].node_type = "merge"
        /\ Len(cfg.nodes[b].successors) = 2
        /\ Len(cfg.nodes[m].predecessors) = 2
        /\ cfg.nodes[m].id \in ReachableFrom(cfg, {cfg.nodes[b].id})
        /\ \E q \in DOMAIN cfg.nodes :
            /\ cfg.nodes[q].node_type = "statement"
            /\ cfg.nodes[q].id \in SuccessorsOf(cfg, cfg.nodes[m].id)

====
